---- MODULE Spec2Model ----
(***************************************************************************)
(* A model of the backup pipeline of backup-go: the uploader's retry loop, *)
(* the retention manager (DeleteExpiredBackups), the run guard (PID file)  *)
(* and the daemon's scheduling loop.  The repository holds two builds of   *)
(* the same pipeline: package main (backup.go, config.go, cosio) and the   *)
(* refactored internal/ packages (scheduler, task, uploader).  Where the   *)
(* two differ, both are modelled and `impl` says which build runs.         *)
(*                                                                         *)
(* Each part has its own variables and its own specification; a            *)
(* specification leaves the other parts' variables unchanged.              *)
(***************************************************************************)
EXTENDS Integers, Sequences, FiniteSets, TLC

VARIABLES
  \* ---- Upload (uploader.Upload / uploadToCOS) ----
  uPc,        \* position in Upload: "start","open","put","after","sleep","done"
  attempt,    \* the loop variable `attempt`
  fileSize,   \* fi.Size() of the local artifact
  fOpen,      \* whether the file handle f of the current attempt is open
  prRead,     \* progressReader.read of the current attempt's reader
  lastErr,    \* `lastErr`: the error of the last failed put, or NilErr
  uRet,       \* what Upload returned: [kind, wraps], NoRet while running
  uTrace,     \* what the object store and the clock observed, in order
  envInterval,\* the text of PROGRESS_INTERVAL, as tokens; <<>> when unset
  interval,   \* `interval`, in microseconds; 0 before its declaration
  warned,     \* the warning the interval parsing logged, or "none"
  \* ---- Retention (uploader.DeleteExpiredBackups / deleteExpiredBackups) ----
  pPc,        \* position of the listing goroutine
  keepDays,   \* the keepDays argument
  objects,    \* the keys the bucket holds under the prefix
  marker,     \* `marker`: the key the next listing call starts after, <<>> at first
  page,       \* v.Contents of the last listing call
  pageIdx,    \* how many items of `page` the range loop has processed
  isTruncated,\* v.IsTruncated of the last listing call
  tasks,      \* the buffered channel `tasks`
  tasksClosed,\* whether close(tasks) was called
  wPc,        \* each worker's position: "none","recv","delete","count",
              \* "locked","done"
  wKey,       \* the task a worker holds
  wOk,        \* whether the worker's delete call succeeded
  mu,         \* the holder of the mutex `mu`: a worker, or 0 when it is free
  wTmp,       \* the counter value a worker read inside its critical section
  counters,   \* listedRaw, listedFiles, matched, toDelete, deleted, failed
  delCalls,   \* per key, the number of delete calls issued for it
  listCalls,  \* the number of listing calls issued
  listed,     \* the keys the listing calls returned so far
  pRet,       \* what the function returned, "none" while running
  \* ---- Pipeline runs, run guard, daemon loop ----
  impl,       \* the build that runs: "main" (backup.go) or "internal" (scheduler, task)
  exitCause,  \* per process: "none" while it lives, else how it ended
  rPc,        \* per process: position in its pipeline run, "idle" between runs
  entry,      \* per process: the function its run entered by
  rdPid,      \* per process: checkBackupRunning's local `pid`
  rmErr,      \* per process: what the run's last os.RemoveAll returned
  artPath,    \* per process: archivePath of its run
  pend,       \* per process: the value its run is about to return
  retVal,     \* per process: what its last trigger returned
  logs,       \* per process: the log lines of its last trigger, by kind
  used,       \* per process: the configuration its last run was started with
  pidFile,    \* tmp/backup.pid: Absent, Garbage or PidText(pid)
  tmpDir,     \* whether the directory tmp exists
  files,      \* the artifact files that exist
  taskDirs,   \* the processes whose task directory tmp/manual-<id> exists
  dPc,        \* the daemon loop's position
  cfg,        \* the loop's `cfg`
  client,     \* the settings the loop's cosClient was built from
  nextRun,    \* the loop's nextRunTime
  deadline,   \* when the select's timer fires
  armed,      \* whether the select waits on a timer
  reloadChan, \* len(configReloadChan), capacity 1
  wtPc,       \* the watcher goroutine: "recv" or "send"
  lastExit,   \* the case that ended the loop's last select: "timer", "reload",
              \* or "none" before the first
  now,        \* the wall clock
  cfgFile,    \* the configuration file: a configuration, or BadFile
  fsEvents,   \* write events pending in watcher.Events
  sigChan,    \* len(sigChan), capacity 1
  sigFired,   \* whether a shutdown signal was ever delivered
  lastLoaded, \* the last configuration loadConfig returned without error
  writes,     \* how many times the configuration file was written
  \* ---- Next-run computation (CalculateNextRunTime / calculateNextRunTime) ----
  nrPc,       \* "start" before the call, "done" after it
  nrBuild,    \* which function was called: "main" or "internal"
  nrTz,       \* schedule.Timezone
  nrSlot,     \* schedule.Hour, schedule.Minute as an hour of the day
  nrNow,      \* time.Now(), an instant in hours
  nrOut,      \* the instant returned
  \* ---- progressReader.Read ----
  rdTotal,    \* progressReader.total
  rdLeft,     \* the bytes the wrapped reader p.r still holds
  rdEofWithData, \* whether p.r returns io.EOF together with its last bytes
  rdInterval, \* progressReader.interval
  rdRead,     \* progressReader.read
  rdFinished, \* progressReader.finished
  rdLastTime, \* progressReader.lastTime, 0 for the zero time
  rdClock,    \* time.Now()
  rdRet,      \* what the last call of Read returned: <<n, err>>
  rdEvents,   \* the onTick calls so far: <<read, total>> each
  \* ---- CalculateDirSize and Compress ----
  tree,           \* the source tree: what is at each path under srcDir
  aPc,            \* "size", "archive" or "done"
  walk,           \* the paths filepath.WalkDir has still to hand to the callback
  visited,        \* the callback's visited map (the set of paths marked true)
  originalSize,   \* CalculateDirSize's size, returned to Compress as originalSize
  tarEntries,     \* the headers (and contents) written to the tar writer
  processedFiles, \* Compress's processedFiles
  skippedFiles,   \* Compress's skippedFiles
  sizeSeen,       \* the paths the size pass's callback was called with
  tarSeen,        \* the paths the archive pass's callback was called with
  aRet,           \* what Compress returned: "none", "ok" or the error's kind
  faults,         \* whether calls on the source tree and the destination can fail
  twState,        \* the tar writer: "none", "ok", "short" (the current entry lacks
                  \* bytes its header announced) or "broken" (a write failed)
  dstFile         \* whether the destination file exists

uvars == <<uPc, attempt, fileSize, fOpen, prRead, lastErr, uRet, uTrace,
           envInterval, interval, warned>>

pvars == <<pPc, keepDays, objects, marker, page, pageIdx, isTruncated, tasks,
           tasksClosed, wPc, wKey, wOk, mu, wTmp, counters, delCalls, listCalls,
           listed, pRet>>

procVars == <<exitCause, rPc, entry, rdPid, rmErr, artPath, pend, retVal, logs, used>>

fsVars == <<pidFile, tmpDir, files, taskDirs>>

daemonVars == <<dPc, cfg, client, nextRun, deadline, armed, reloadChan, wtPc,
                lastExit>>

envVars == <<now, cfgFile, fsEvents, sigChan, sigFired, lastLoaded, writes>>

gvars == <<impl, procVars, fsVars, daemonVars, envVars>>

nvars == <<nrPc, nrBuild, nrTz, nrSlot, nrNow, nrOut>>

rvars == <<rdTotal, rdLeft, rdEofWithData, rdInterval, rdRead, rdFinished, rdLastTime, rdClock, rdRet, rdEvents>>

avars == <<tree, aPc, walk, visited, originalSize, tarEntries, processedFiles, skippedFiles, sizeSeen, tarSeen, aRet,
          faults, twState, dstFile>>

vars == <<uvars, pvars, gvars, nvars, rvars, avars>>

\* what an Upload step leaves alone
notUpload == <<pvars, gvars, nvars, rvars, avars>>

\* what a retention step leaves alone
notPrune == <<uvars, gvars, nvars, rvars, avars>>

\* what a pipeline or daemon step leaves alone
notPipeline == <<uvars, pvars, nvars, rvars, avars>>

\* what a next-run computation leaves alone
notNextRun == <<uvars, pvars, gvars, rvars, avars>>

\* what a call of progressReader.Read leaves alone
notProgress == <<uvars, pvars, gvars, nvars, avars>>

\* what the size pass and the archive pass leave alone
notArchive == <<uvars, pvars, gvars, nvars, rvars>>

-----------------------------------------------------------------------------
(***************************************************************************)
(* Upload: src/config.go 379-436 (uploader.Upload) and                     *)
(* src/unnamed/part_004 143-204 (uploadToCOS); the two are the same code.  *)
(***************************************************************************)

\* the retry loop's bound: for attempt := 1; attempt <= 3; attempt++
MaxAttempts == 3

\* the unit of the backoff: 500 * time.Millisecond
BackoffUnitMs == 500

\* largest artifact size drawn for fi.Size()
MaxFileSize == 3

NilErr == <<"nil", 0>>

\* Upload has not returned
NoRet == [kind |-> "none", wraps |-> NilErr]

\* the error value client.Object.Put returned on attempt a
PutErr(a) == <<"put_err", a>>

\* a backoff that does not grow
BackoffFlat(a) == BackoffUnitMs

\* backoff := time.Duration(1<<uint(attempt-1)) * 500 * time.Millisecond
Backoff(a) == (2 ^ (a - 1)) * BackoffUnitMs

\* a loop that sleeps after every failed attempt, the last included
SleepsAfterAlways(a) == TRUE

\* if attempt < 3 { ... time.Sleep(backoff) }
SleepsAfter(a) == a < MaxAttempts

\* fmt.Errorf("上传文件到 COS 失败（已重试 3 次）：%w", lastErr)
ExhaustedErr(e) == [kind |-> "retries_exhausted", wraps |-> e]

\* interval := time.Second, in microseconds
DefaultIntervalUs == 1000000

\* 60*time.Second, in microseconds
MaxIntervalUs == 60000000

\* the number tokens drawn for the text, with their values
NumVal == [tok \in {"0", "1", "2", "59", "60", "61", "999",
                    "000000000000000000002"} |->
             CASE tok = "0" -> 0 [] tok = "1" -> 1 [] tok = "2" -> 2
               [] tok = "59" -> 59 [] tok = "60" -> 60 [] tok = "61" -> 61
               [] tok = "999" -> 999
               [] tok = "000000000000000000002" -> 2]

\* unitMap of time.ParseDuration, in microseconds (ns, m and h are left out)
UnitUs == [tok \in {"us", "ms", "s"} |->
             CASE tok = "us" -> 1 [] tok = "ms" -> 1000 [] tok = "s" -> 1000000]

\* the bytes of one token
TokLen == [tok \in DOMAIN NumVal \cup DOMAIN UnitUs \cup {"-", "abc"} |->
             CASE tok \in {"0", "1", "2", "-"} -> 1
               [] tok \in {"59", "60", "61", "us", "ms"} -> 2
               [] tok \in {"999", "abc"} -> 3
               [] tok = "000000000000000000002" -> 21
               [] OTHER -> 1]

\* the texts drawn for PROGRESS_INTERVAL: unset, a word, and an optional
\* sign, a number and an optional unit
IntervalTexts ==
  {<<>>, <<"abc">>}
    \cup {<<n>> : n \in DOMAIN NumVal}
    \cup {<<n, u>> : n \in DOMAIN NumVal, u \in DOMAIN UnitUs}
    \cup {<<"-", n>> : n \in {"0", "1"}}
    \cup {<<"-", n, u>> : n \in {"0", "1"}, u \in DOMAIN UnitUs}

RECURSIVE StrLen(_)
\* len(v)
StrLen(v) == IF v = <<>> THEN 0 ELSE TokLen[v[1]] + StrLen(Tail(v))

\* time.ParseDuration(v): [ok, d].  An optional sign; "0" alone is 0; else
\* a number followed by a unit, anything else is an error
ParseDuration(v) ==
  LET neg  == v # <<>> /\ v[1] = "-"
      rest == IF neg THEN Tail(v) ELSE v
      bad  == [ok |-> FALSE, d |-> 0]
  IN  IF rest = <<>> THEN bad
      ELSE IF rest = <<"0">> THEN [ok |-> TRUE, d |-> 0]
      ELSE IF Len(rest) # 2 THEN bad
      ELSE IF rest[1] \notin DOMAIN NumVal \/ rest[2] \notin DOMAIN UnitUs THEN bad
      ELSE LET val == NumVal[rest[1]] * UnitUs[rest[2]]
           IN  [ok |-> TRUE, d |-> IF neg THEN 0 - val ELSE val]

\* d > 0 && d <= 60*time.Second
InRange(d) == d > 0 /\ d <= MaxIntervalUs

\* the block that reads PROGRESS_INTERVAL: [interval, warned]
ProgressInterval(v) ==
  LET p == ParseDuration(v)
  IN  IF v = <<>> THEN [interval |-> DefaultIntervalUs, warned |-> "none"]
      ELSE IF StrLen(v) > 20
      THEN [interval |-> DefaultIntervalUs, warned |-> "too_long"]
      ELSE IF p.ok /\ InRange(p.d)
      THEN [interval |-> p.d, warned |-> "none"]
      ELSE [interval |-> DefaultIntervalUs, warned |-> "invalid"]

UInit ==
  /\ uPc = "start"
  /\ envInterval \in IntervalTexts
  /\ interval = 0
  /\ warned = "none"
  /\ attempt = 0
  /\ fileSize \in 0..MaxFileSize
  /\ fOpen = FALSE
  /\ prRead = 0
  /\ lastErr = NilErr
  /\ uRet = NoRet
  /\ uTrace = <<>>

\* fi, err := os.Stat(localFile); the block that reads PROGRESS_INTERVAL;
\* attempt := 1
UStat ==
  /\ uPc = "start"
  /\ \E ok \in BOOLEAN :
       IF ok
       THEN /\ uPc' = "open"
            /\ attempt' = 1
            /\ uRet' = uRet
            /\ interval' = ProgressInterval(envInterval).interval
            /\ warned' = ProgressInterval(envInterval).warned
       ELSE /\ uPc' = "done"
            /\ attempt' = attempt
            /\ uRet' = [kind |-> "stat_failed", wraps |-> <<"stat_err", 0>>]
            /\ UNCHANGED <<interval, warned>>
  /\ UNCHANGED <<fileSize, fOpen, prRead, lastErr, uTrace, envInterval>>
  /\ UNCHANGED notUpload

\* a reader that goes on counting where the attempt before stopped
ReaderCountKept(old) == old

\* newProgressReader: the struct literal leaves `read` at its zero value
NewReaderCount(old) == 0

\* f, err := os.Open(localFile); pr := newProgressReader(f, fi.Size(), ...)
UOpen ==
  /\ uPc = "open"
  /\ \E ok \in BOOLEAN :
       IF ok
       THEN /\ uPc' = "put"
            /\ fOpen' = TRUE
            /\ prRead' = NewReaderCount(prRead)
            /\ uRet' = uRet
            /\ uTrace' = Append(uTrace, <<"put", attempt>>)
       ELSE /\ uPc' = "done"
            /\ uRet' = [kind |-> "open_failed", wraps |-> <<"open_err", attempt>>]
            /\ UNCHANGED <<fOpen, prRead, uTrace>>
  /\ UNCHANGED <<attempt, fileSize, lastErr>>
  /\ UNCHANGED <<envInterval, interval, warned>>
  /\ UNCHANGED notUpload

\* client.Object.Put reading the body through pr.Read: n bytes more
URead ==
  /\ uPc = "put"
  /\ prRead < fileSize
  /\ \E n \in 1..(fileSize - prRead) : prRead' = prRead + n
  /\ UNCHANGED <<uPc, attempt, fileSize, fOpen, lastErr, uRet, uTrace>>
  /\ UNCHANGED <<envInterval, interval, warned>>
  /\ UNCHANGED notUpload

\* _, err = client.Object.Put(...); _ = f.Close(); if err == nil { return nil };
\* lastErr = err.  A put may fail at any point of the stream; it succeeds only
\* once the whole body was read.
UPutReturn ==
  /\ uPc = "put"
  /\ \E ok \in BOOLEAN :
       /\ ok => prRead = fileSize
       /\ fOpen' = FALSE
       /\ uTrace' = Append(uTrace, <<IF ok THEN "put_ok" ELSE "put_failed", attempt>>)
       /\ IF ok
          THEN /\ uPc' = "done"
               /\ uRet' = [kind |-> "ok", wraps |-> NilErr]
               /\ lastErr' = lastErr
          ELSE /\ uPc' = "after"
               /\ uRet' = uRet
               /\ lastErr' = PutErr(attempt)
  /\ UNCHANGED <<attempt, fileSize, prRead>>
  /\ UNCHANGED <<envInterval, interval, warned>>
  /\ UNCHANGED notUpload

\* if attempt < 3 { backoff := ...; time.Sleep(backoff) }; attempt++;
\* the loop test attempt <= 3, and the return after the loop
UAfterFailure ==
  /\ uPc = "after"
  /\ IF SleepsAfter(attempt)
     THEN /\ uPc' = "sleep"
          /\ uTrace' = Append(uTrace, <<"sleep", Backoff(attempt)>>)
          /\ UNCHANGED <<attempt, uRet>>
     ELSE IF attempt + 1 <= MaxAttempts
          THEN /\ uPc' = "open"
               /\ attempt' = attempt + 1
               /\ UNCHANGED <<uRet, uTrace>>
          ELSE /\ uPc' = "done"
               /\ uRet' = ExhaustedErr(lastErr)
               /\ UNCHANGED <<attempt, uTrace>>
  /\ UNCHANGED <<fileSize, fOpen, prRead, lastErr>>
  /\ UNCHANGED <<envInterval, interval, warned>>
  /\ UNCHANGED notUpload

\* time.Sleep returns; attempt++ and the loop test
UWake ==
  /\ uPc = "sleep"
  /\ IF attempt + 1 <= MaxAttempts
     THEN /\ uPc' = "open"
          /\ attempt' = attempt + 1
          /\ uRet' = uRet
     ELSE /\ uPc' = "done"
          /\ attempt' = attempt
          /\ uRet' = ExhaustedErr(lastErr)
  /\ UNCHANGED <<fileSize, fOpen, prRead, lastErr, uTrace>>
  /\ UNCHANGED <<envInterval, interval, warned>>
  /\ UNCHANGED notUpload

UNext == UStat \/ UOpen \/ URead \/ UPutReturn \/ UAfterFailure \/ UWake

-----------------------------------------------------------------------------
(***************************************************************************)
(* Retention: src/config.go 438-540 (uploader.DeleteExpiredBackups) and    *)
(* src/unnamed/part_004 208-311 (deleteExpiredBackups): the same code.     *)
(*                                                                         *)
(* An object key is a sequence of tokens, each token standing for a piece  *)
(* of the key's text: "/" is the path separator, "backup-" and ".tar.zst"  *)
(* are the naming pattern's prefix and suffix, "D0".."D3" are well-formed  *)
(* timestamps (20060102-150405) of day 0..3, and any other token is text   *)
(* that is none of these.                                                  *)
(***************************************************************************)

\* const workers = 5
Workers == 5

\* the capacity of the channel `tasks` (256 in make(chan task, 256), scaled
\* down so that the producer meets a full queue)
TasksCap == 1

\* the number of keys one listing call returns (MaxKeys, scaled down)
PageSize == 2

\* the largest number of objects drawn for the bucket
MaxObjects == 3

\* the largest keepDays drawn
MaxKeepDays == 2

\* time.Now() at the call, in days
NowDay == 3

KDir         == <<"backup", "/">>
KOld         == <<"backup", "/", "backup-", "D0", ".tar.zst">>
KMid         == <<"backup", "/", "backup-", "D1", ".tar.zst">>
KNew         == <<"backup", "/", "backup-", "D3", ".tar.zst">>
KJunk        == <<"backup", "/", "backup-", "junk", ".tar.zst">>
KOtherSuffix == <<"backup", "/", "backup-", "D0", ".tar.gz">>
KOtherPrefix == <<"backup", "/", "db-", "D0", ".tar.zst">>
KDirLike     == <<"backup", "/", "backup-", "D0", ".tar.zst", "/">>

\* the keys of the model's bucket, in the order the store lists them
KeySeq == <<KDir, KOld, KDirLike, KMid, KNew, KJunk, KOtherSuffix, KOtherPrefix>>

Keys == {KeySeq[i] : i \in 1..Len(KeySeq)}

KeyIndex(k) == CHOOSE i \in 1..Len(KeySeq) : KeySeq[i] = k

\* strings.HasSuffix(s, suffix), suffix one token
HasSuffix(s, tok) == Len(s) > 0 /\ s[Len(s)] = tok

\* strings.HasPrefix(s, prefix), prefix one token
HasPrefix(s, tok) == Len(s) > 0 /\ s[1] = tok

\* strings.TrimPrefix / strings.TrimSuffix
TrimPrefix(s, tok) == IF HasPrefix(s, tok) THEN SubSeq(s, 2, Len(s)) ELSE s

TrimSuffix(s, tok) == IF HasSuffix(s, tok) THEN SubSeq(s, 1, Len(s) - 1) ELSE s

RECURSIVE StripSlashes(_)
\* filepath.Base, first step: trailing separators are removed
StripSlashes(s) ==
  IF HasSuffix(s, "/") THEN StripSlashes(SubSeq(s, 1, Len(s) - 1)) ELSE s

RECURSIVE LastElement(_)
\* filepath.Base, second step: what follows the last separator
LastElement(s) ==
  IF Len(s) = 0 THEN <<>>
  ELSE IF s[Len(s)] = "/" THEN <<>>
  ELSE Append(LastElement(SubSeq(s, 1, Len(s) - 1)), s[Len(s)])

\* filepath.Base(key): "." for the empty path, "/" for a path of separators
Base(s) ==
  IF Len(s) = 0 THEN <<".">>
  ELSE IF Len(StripSlashes(s)) = 0 THEN <<"/">>
  ELSE LastElement(StripSlashes(s))

\* a scan without the placeholder stage
IsPlaceholderNever(key) == FALSE

\* strings.HasSuffix(it.Key, "/")
IsPlaceholder(key) == HasSuffix(key, "/")

\* isBackupObject(key)
IsBackupObject(key) ==
  LET name == Base(key)
  IN  HasPrefix(name, "backup-") /\ HasSuffix(name, ".tar.zst")

\* time.Parse("20060102-150405", ts): the day of a well-formed timestamp
TimestampDay == [tok \in {"D0", "D1", "D2", "D3"} |->
                   CASE tok = "D0" -> 0 [] tok = "D1" -> 1
                     [] tok = "D2" -> 2 [] tok = "D3" -> 3]

\* parseBackupTime(key): [ok, t]
ParseBackupTime(key) ==
  LET name == Base(key)
      ts   == TrimSuffix(TrimPrefix(name, "backup-"), ".tar.zst")
  IN  IF Len(ts) = 1 /\ ts[1] \in DOMAIN TimestampDay
      THEN [ok |-> TRUE, t |-> TimestampDay[ts[1]]]
      ELSE [ok |-> FALSE, t |-> 0]

\* expire := time.Now().AddDate(0, 0, -keepDays)
Expire(days) == NowDay - days

\* a cutoff test that is not strict
BeforeOrEqual(t, u) == t <= u

\* ts.Before(expire)
Before(t, u) == t < u

\* the keys after `m` in listing order (m = <<>>: from the start)
After(m) ==
  LET from == IF m = <<>> THEN 0 ELSE KeyIndex(m)
  IN  SelectSeq(KeySeq, LAMBDA k : k \in objects /\ KeyIndex(k) > from)

ZeroCounters == [listedRaw |-> 0, listedFiles |-> 0, matched |-> 0,
                 toDelete |-> 0, deleted |-> 0, failed |-> 0]

WorkerIds == 1..Workers

PInit ==
  /\ pPc = "start"
  /\ keepDays \in -1..MaxKeepDays
  /\ objects \in {S \in SUBSET Keys : Cardinality(S) <= MaxObjects}
  /\ marker = <<>>
  /\ page = <<>>
  /\ pageIdx = 0
  /\ isTruncated = FALSE
  /\ tasks = <<>>
  /\ tasksClosed = FALSE
  /\ wPc = [w \in WorkerIds |-> "none"]
  /\ wKey = [w \in WorkerIds |-> <<>>]
  /\ wOk = [w \in WorkerIds |-> FALSE]
  /\ mu = 0
  /\ wTmp = [w \in WorkerIds |-> 0]
  /\ counters = ZeroCounters
  /\ delCalls = [k \in Keys |-> 0]
  /\ listCalls = 0
  /\ listed = {}
  /\ pRet = "none"

\* a call on a bucket that holds dated backups only
PoolInit ==
  /\ pPc = "start"
  /\ keepDays \in 0..MaxKeepDays
  /\ objects \in {S \in SUBSET {KOld, KMid, KNew} : Cardinality(S) <= MaxObjects}
  /\ marker = <<>>
  /\ page = <<>>
  /\ pageIdx = 0
  /\ isTruncated = FALSE
  /\ tasks = <<>>
  /\ tasksClosed = FALSE
  /\ wPc = [w \in WorkerIds |-> "none"]
  /\ wKey = [w \in WorkerIds |-> <<>>]
  /\ wOk = [w \in WorkerIds |-> FALSE]
  /\ mu = 0
  /\ wTmp = [w \in WorkerIds |-> 0]
  /\ counters = ZeroCounters
  /\ delCalls = [k \in Keys |-> 0]
  /\ listCalls = 0
  /\ listed = {}
  /\ pRet = "none"

\* a test that disables pruning for negative values only
DisabledOnlyNegative(days) == days < 0

\* if keepDays <= 0
RetentionDisabled(days) == days <= 0

\* if keepDays <= 0 { return nil }
PDisabled ==
  /\ pPc = "start"
  /\ RetentionDisabled(keepDays)
  /\ pPc' = "returned"
  /\ pRet' = "nil"
  /\ UNCHANGED <<keepDays, objects, marker, page, pageIdx, isTruncated, tasks,
                 tasksClosed, wPc, wKey, wOk, mu, wTmp, counters, delCalls, listCalls, listed>>
  /\ UNCHANGED notPrune

\* expire := ...; wg.Add(workers); for i < workers { go workerFn() }
PStartWorkers ==
  /\ pPc = "start"
  /\ ~RetentionDisabled(keepDays)
  /\ pPc' = "list"
  /\ wPc' = [w \in WorkerIds |-> "recv"]
  /\ UNCHANGED <<keepDays, objects, marker, page, pageIdx, isTruncated, tasks,
                 tasksClosed, wKey, wOk, mu, wTmp, counters, delCalls, listCalls, listed, pRet>>
  /\ UNCHANGED notPrune

\* v, _, err := client.Bucket.Get(..., Marker: marker, ...) succeeding
PListOk ==
  /\ pPc = "list"
  /\ LET rest == After(marker)
         got  == SubSeq(rest, 1, IF Len(rest) < PageSize THEN Len(rest) ELSE PageSize)
     IN  /\ page' = got
         /\ isTruncated' = (Len(rest) > PageSize)
         /\ listed' = listed \cup {got[i] : i \in 1..Len(got)}
  /\ pageIdx' = 0
  /\ listCalls' = listCalls + 1
  /\ pPc' = "scan"
  /\ UNCHANGED <<keepDays, objects, marker, tasks, tasksClosed, wPc, wKey, wOk, mu, wTmp,
                 counters, delCalls, pRet>>
  /\ UNCHANGED notPrune

\* the listing call failing: close(tasks); then wg.Wait() and the error
PListFail ==
  /\ pPc = "list"
  /\ listCalls' = listCalls + 1
  /\ tasksClosed' = TRUE
  /\ pPc' = "wait_err"
  /\ UNCHANGED <<keepDays, objects, marker, page, pageIdx, isTruncated, tasks,
                 wPc, wKey, wOk, mu, wTmp, counters, delCalls, listed, pRet>>
  /\ UNCHANGED notPrune

\* a test that forgets the ok of parseBackupTime
ExpiredUnparsed(ts, expire) == Before(ts.t, expire)

\* ts, ok := parseBackupTime(it.Key); ok && ts.Before(expire)
Expired(ts, expire) == ts.ok /\ Before(ts.t, expire)

\* one iteration of: for _, it := range v.Contents { ... }
PScanItem ==
  /\ pPc = "scan"
  /\ pageIdx < Len(page)
  /\ LET key == page[pageIdx + 1]
         c1  == [counters EXCEPT !.listedRaw = @ + 1]
         c2  == [c1 EXCEPT !.listedFiles = @ + 1]
         c3  == [c2 EXCEPT !.matched = @ + 1]
         ts  == ParseBackupTime(key)
     IN  IF IsPlaceholder(key)
         THEN counters' = c1 /\ tasks' = tasks
         ELSE IF ~IsBackupObject(key)
         THEN counters' = c2 /\ tasks' = tasks
         ELSE IF Expired(ts, Expire(keepDays))
         THEN /\ Len(tasks) < TasksCap
              /\ counters' = [c3 EXCEPT !.toDelete = @ + 1]
              /\ tasks' = Append(tasks, key)
         ELSE counters' = c3 /\ tasks' = tasks
  /\ pageIdx' = pageIdx + 1
  /\ UNCHANGED <<pPc, keepDays, objects, marker, page, isTruncated, tasksClosed,
                 wPc, wKey, wOk, mu, wTmp, delCalls, listCalls, listed, pRet>>
  /\ UNCHANGED notPrune

\* a producer that leaves the channel open
ClosedNever(closed, truncated) == closed

\* close(tasks) follows the listing loop, which a page leaves only when
\* !v.IsTruncated
ClosedAfterAnyPage(closed, truncated) == TRUE

ClosedAfterPage(closed, truncated) == closed \/ ~truncated

\* if !v.IsTruncated { break }; marker = v.NextMarker
PNextPage ==
  /\ pPc = "scan"
  /\ pageIdx = Len(page)
  /\ IF isTruncated
     THEN /\ marker' = page[Len(page)]
          /\ pPc' = "list"
     ELSE /\ marker' = marker
          /\ pPc' = "wait"
  /\ tasksClosed' = ClosedAfterPage(tasksClosed, isTruncated)
  /\ UNCHANGED <<keepDays, objects, page, pageIdx, isTruncated, tasks, wPc, wKey,
                 wOk, mu, wTmp, counters, delCalls, listCalls, listed, pRet>>
  /\ UNCHANGED notPrune

\* wg.Wait() returns once every worker has run its deferred wg.Done()
WaitSkipped(pc) == TRUE

WaitDone(pc) == \A w \in WorkerIds : pc[w] = "done"

\* wg.Wait() returning, and the return that follows it
PReturn ==
  /\ pPc \in {"wait", "wait_err"}
  /\ WaitDone(wPc)
  /\ pRet' = IF pPc = "wait" THEN "nil" ELSE "list_err"
  /\ pPc' = "returned"
  /\ UNCHANGED <<keepDays, objects, marker, page, pageIdx, isTruncated, tasks,
                 tasksClosed, wPc, wKey, wOk, mu, wTmp, counters, delCalls, listCalls, listed>>
  /\ UNCHANGED notPrune

\* a receive takes the task out of the channel
DequeueKeeps(q) == q

Dequeue(q) == Tail(q)

\* for t := range tasks: a task is received
WRecv(w) ==
  /\ wPc[w] = "recv"
  /\ Len(tasks) > 0
  /\ wKey' = [wKey EXCEPT ![w] = Head(tasks)]
  /\ tasks' = Dequeue(tasks)
  /\ wPc' = [wPc EXCEPT ![w] = "delete"]
  /\ UNCHANGED <<pPc, keepDays, objects, marker, page, pageIdx, isTruncated,
                 tasksClosed, wOk, mu, wTmp, counters, delCalls, listCalls, listed, pRet>>
  /\ UNCHANGED notPrune

\* _, err := client.Object.Delete(ctx, t.key)
WDelete(w) ==
  /\ wPc[w] = "delete"
  /\ delCalls' = [delCalls EXCEPT ![wKey[w]] = @ + 1]
  /\ \E ok \in BOOLEAN :
       /\ wOk' = [wOk EXCEPT ![w] = ok]
       /\ objects' = IF ok THEN objects \ {wKey[w]} ELSE objects
  /\ wPc' = [wPc EXCEPT ![w] = "count"]
  /\ UNCHANGED <<pPc, keepDays, marker, page, pageIdx, isTruncated, tasks,
                 tasksClosed, wKey, mu, wTmp, counters, listCalls, listed, pRet>>
  /\ UNCHANGED notPrune

\* mu.Lock() returns only while no other goroutine holds the mutex
MutexIgnored(m) == TRUE

MutexFree(m) == m = 0

\* a worker that counts a failed delete as a deletion
CountedAsDeleted(c, ok, v) == [c EXCEPT !.deleted = v + 1]

\* failed++ / deleted++ : the value written back is one more than the value read
Counted(c, ok, v) ==
  IF ok THEN [c EXCEPT !.deleted = v + 1] ELSE [c EXCEPT !.failed = v + 1]

\* mu.Lock(), and the read half of failed++ or deleted++
WLock(w) ==
  /\ wPc[w] = "count"
  /\ MutexFree(mu)
  /\ mu' = w
  /\ wTmp' = [wTmp EXCEPT ![w] = IF wOk[w] THEN counters.deleted ELSE counters.failed]
  /\ wPc' = [wPc EXCEPT ![w] = "locked"]
  /\ UNCHANGED <<pPc, keepDays, objects, marker, page, pageIdx, isTruncated, tasks,
                 tasksClosed, wKey, wOk, counters, delCalls, listCalls, listed, pRet>>
  /\ UNCHANGED notPrune

\* the write half of failed++ or deleted++, and mu.Unlock(); on a failed
\* delete the `continue`, otherwise the end of the loop body
WUnlock(w) ==
  /\ wPc[w] = "locked"
  /\ counters' = Counted(counters, wOk[w], wTmp[w])
  /\ mu' = 0
  /\ wTmp' = [wTmp EXCEPT ![w] = 0]
  /\ wPc' = [wPc EXCEPT ![w] = "recv"]
  /\ UNCHANGED <<pPc, keepDays, objects, marker, page, pageIdx, isTruncated, tasks,
                 tasksClosed, wKey, wOk, delCalls, listCalls, listed, pRet>>
  /\ UNCHANGED notPrune

\* the range loop ends on the closed, drained channel; defer wg.Done()
WExit(w) ==
  /\ wPc[w] = "recv"
  /\ tasksClosed
  /\ Len(tasks) = 0
  /\ wPc' = [wPc EXCEPT ![w] = "done"]
  /\ UNCHANGED <<pPc, keepDays, objects, marker, page, pageIdx, isTruncated, tasks,
                 tasksClosed, wKey, wOk, mu, wTmp, counters, delCalls, listCalls, listed, pRet>>
  /\ UNCHANGED notPrune

PNext ==
  \/ PDisabled
  \/ PStartWorkers
  \/ PListOk
  \/ PListFail
  \/ PScanItem
  \/ PNextPage
  \/ PReturn
  \/ \E w \in WorkerIds : WRecv(w)
  \/ \E w \in WorkerIds : WDelete(w)
  \/ \E w \in WorkerIds : WLock(w)
  \/ \E w \in WorkerIds : WUnlock(w)
  \/ \E w \in WorkerIds : WExit(w)

-----------------------------------------------------------------------------
(***************************************************************************)
(* Pipeline runs and the run guard.                                        *)
(*   main build:     runScheduledBackup, performOneTimeBackup,             *)
(*                   performBackup, compressData (src/backup.go),          *)
(*                   prepareTempDir, cleanupTempDir (src/config.go)        *)
(*   internal build: task.RunBackup (src/internal/task/task.go),           *)
(*                   archiver.Compress                                     *)
(* Process 1 is the daemon; process 2 is another process of the same       *)
(* build started in the same working directory (a second daemon, or the    *)
(* interactive menu's immediate backup).                                   *)
(***************************************************************************)

Procs == {1, 2}

\* a configuration file loadConfig fails on (unreadable, or not TOML)
BadFile == [enabled |-> FALSE, slot |-> 0, cos |-> "unparsable"]

\* no run of the daemon was started yet
NoUse == [cfg |-> BadFile, cos |-> "none"]

NoPath == <<"none">>

Absent == <<"absent">>

\* a lock file whose text is no positive number
Garbage == <<"garbage">>

\* a lock file holding pid n
PidText(n) == <<"pid", n>>

\* a pid no living process has (a lock file left by a crashed process)
DeadPid == 3

\* the seconds time.Now() can show when an archive path is generated
MaxStamp == 2

Alive(p) == exitCause[p] = "none"

\* process.Signal(syscall.Signal(0)) == nil
ProcessAlive(pid) == pid \in Procs /\ Alive(pid)

SetP(f, p, v) == [f EXCEPT ![p] = v]

Log(p, kind) == [logs EXCEPT ![p] = @ \cup {kind}]

\* os.RemoveAll(TempDir): the directory and all it holds, the lock file too
\* a removal that takes the lock file and leaves the rest of the directory
RemoveAllTempLockOnly ==
  /\ pidFile' = Absent
  /\ files' = files
  /\ taskDirs' = taskDirs

RemoveAllTemp ==
  /\ pidFile' = Absent
  /\ files' = {}
  /\ taskDirs' = {}

\* the directory an artifact path lies in
ParentExists(path) ==
  IF path[1] = "tmp" THEN tmpDir ELSE tmpDir /\ path[2] \in taskDirs

\* a run enters by function e
StartRun(p, e, first) ==
  /\ entry' = SetP(entry, p, e)
  /\ rPc' = SetP(rPc, p, first)
  /\ retVal' = SetP(retVal, p, "none")
  /\ pend' = SetP(pend, p, "none")
  /\ logs' = SetP(logs, p, {})
  /\ rdPid' = SetP(rdPid, p, 0)
  /\ rmErr' = SetP(rmErr, p, "none")
  /\ artPath' = SetP(artPath, p, NoPath)

\* os.Exit(code): the process ends where it stands, no deferred call runs
ExitProcess(p, cause) ==
  /\ exitCause' = SetP(exitCause, p, cause)
  /\ rPc' = SetP(rPc, p, "exited")

\* the function the trigger called returns v
Return(p, v) ==
  /\ retVal' = SetP(retVal, p, v)
  /\ rPc' = SetP(rPc, p, "idle")

\* a trigger in process p while no scheduler loop is modelled (dPc = "idle"):
\* a daemon's timer (runScheduledBackup), the menu's immediate backup
\* (performOneTimeBackup), or task.RunBackup
GTrigger(p) ==
  /\ dPc = "idle"
  /\ Alive(p)
  /\ rPc[p] = "idle"
  /\ \E e \in (IF impl = "main" THEN {"scheduled", "manual"} ELSE {"task"}) :
       StartRun(p, e, CASE e = "scheduled" -> "chk_stat"
                        [] e = "manual" -> "prepare"
                        [] e = "task" -> "task_mkdir")
  /\ used' = SetP(used, p, NoUse)
  /\ UNCHANGED <<impl, exitCause, fsVars, daemonVars, envVars>>
  /\ UNCHANGED notPipeline

\* checkBackupRunning: os.Stat(pidFile)
GCheckStat(p) ==
  /\ rPc[p] = "chk_stat"
  /\ rPc' = SetP(rPc, p, IF pidFile # Absent THEN "chk_read" ELSE "create_pid")
  /\ UNCHANGED <<impl, exitCause, entry, rdPid, rmErr, artPath, pend, retVal, logs, used,
                 fsVars, daemonVars, envVars>>
  /\ UNCHANGED notPipeline

\* checkBackupRunning: os.ReadFile(pidFile) and fmt.Sscanf(..., "%d", &pid)
GCheckRead(p) ==
  /\ rPc[p] = "chk_read"
  /\ IF pidFile = Absent
     THEN /\ logs' = Log(p, "error_read_pid")
          /\ rPc' = SetP(rPc, p, "create_pid")
          /\ rdPid' = rdPid
     ELSE IF pidFile = Garbage
     THEN /\ logs' = Log(p, "error_pid_invalid")
          /\ rPc' = SetP(rPc, p, "chk_remove")
          /\ rdPid' = rdPid
     ELSE /\ logs' = logs
          /\ rPc' = SetP(rPc, p, "chk_signal")
          /\ rdPid' = SetP(rdPid, p, pidFile[2])
  /\ UNCHANGED <<impl, exitCause, entry, rmErr, artPath, pend, retVal, used,
                 fsVars, daemonVars, envVars>>
  /\ UNCHANGED notPipeline

\* a check that never reports a running owner
SkipsNever(p) == FALSE

\* a check that takes any readable lock file for a running owner
SkipsOnAnyPid(p) == TRUE

\* checkBackupRunning: process.Signal(0) succeeds, so it returns true
SeesLiveOwner(p) == ProcessAlive(rdPid[p])

\* checkBackupRunning: os.FindProcess, process.Signal(0); on true
\* runScheduledBackup logs the skip and returns nil
GCheckSignal(p) ==
  /\ rPc[p] = "chk_signal"
  /\ IF SeesLiveOwner(p)
     THEN /\ logs' = Log(p, "warn_skip_running")
          /\ Return(p, "nil")
     ELSE /\ logs' = Log(p, "info_stale_pid")
          /\ rPc' = SetP(rPc, p, "chk_remove")
          /\ retVal' = retVal
  /\ UNCHANGED <<impl, exitCause, entry, rdPid, rmErr, artPath, pend, used,
                 fsVars, daemonVars, envVars>>
  /\ UNCHANGED notPipeline

\* checkBackupRunning: _ = os.Remove(pidFile); return false
GCheckRemove(p) ==
  /\ rPc[p] = "chk_remove"
  /\ pidFile' = Absent
  /\ rPc' = SetP(rPc, p, "create_pid")
  /\ UNCHANGED <<impl, exitCause, entry, rdPid, rmErr, artPath, pend, retVal, logs, used,
                 tmpDir, files, taskDirs, daemonVars, envVars>>
  /\ UNCHANGED notPipeline

\* createPidFile: os.MkdirAll(TempDir), os.WriteFile(pidFile, pid); on an
\* error runScheduledBackup returns it
GCreatePid(p) ==
  /\ rPc[p] = "create_pid"
  /\ \E ok \in BOOLEAN :
       IF ok
       THEN /\ tmpDir' = TRUE
            /\ pidFile' = PidText(p)
            /\ rPc' = SetP(rPc, p, "prepare")
            /\ UNCHANGED <<retVal, logs>>
       ELSE /\ logs' = Log(p, "error_create_pid")
            /\ Return(p, "err")
            /\ UNCHANGED <<tmpDir, pidFile>>
  /\ UNCHANGED <<impl, exitCause, entry, rdPid, rmErr, artPath, pend, used,
                 files, taskDirs, daemonVars, envVars>>
  /\ UNCHANGED notPipeline

\* exitIfError(prepareTempDir(), ...): os.RemoveAll(TempDir), os.MkdirAll(TempDir);
\* then archivePath := generateArchivePath()
GPrepare(p) ==
  /\ rPc[p] = "prepare"
  /\ \E ok \in BOOLEAN :
       IF ok
       THEN /\ RemoveAllTemp
            /\ tmpDir' = TRUE
            /\ \E s \in 1..MaxStamp : artPath' = SetP(artPath, p, <<"tmp", s>>)
            /\ rPc' = SetP(rPc, p, "archive")
            /\ rmErr' = SetP(rmErr, p, "nil")
            /\ UNCHANGED <<exitCause, logs>>
       ELSE /\ logs' = Log(p, "error_exit")
            /\ ExitProcess(p, "os_exit_1")
            /\ rmErr' = SetP(rmErr, p, "err")
            /\ UNCHANGED <<artPath, fsVars>>
  /\ UNCHANGED <<impl, entry, rdPid, pend, retVal, used, daemonVars, envVars>>
  /\ UNCHANGED notPipeline

\* task.RunBackup: uploader.NewClient, os.MkdirAll(taskTempDir), the deferred
\* os.RemoveAll(taskTempDir) is registered, archivePath is built
GTaskMkdir(p) ==
  /\ rPc[p] = "task_mkdir"
  /\ \E ok \in BOOLEAN :
       IF ok
       THEN /\ tmpDir' = TRUE
            /\ taskDirs' = taskDirs \cup {p}
            /\ \E s \in 1..MaxStamp : artPath' = SetP(artPath, p, <<"task", p, s>>)
            /\ rPc' = SetP(rPc, p, "archive")
            /\ retVal' = retVal
       ELSE /\ Return(p, "err")
            /\ UNCHANGED <<tmpDir, taskDirs, artPath>>
  /\ UNCHANGED <<impl, exitCause, entry, rdPid, rmErr, pend, logs, used, pidFile, files,
                 daemonVars, envVars>>
  /\ UNCHANGED notPipeline

\* an error path that logs the error and goes on to the prune stage
ErrorPathGoesOn(p) ==
  /\ logs' = Log(p, "error_backup_failed")
  /\ rPc' = SetP(rPc, p, "prune")
  /\ pend' = pend

\* performBackup (compressData or uploadToCOS) or archiver.Compress /
\* uploader.Upload returned an error that is not the empty-source one
ErrorPath(p) ==
  /\ logs' = Log(p, "error_backup_failed")
  /\ IF impl = "main"
     THEN /\ rPc' = SetP(rPc, p, "fail_cleanup")
          /\ pend' = pend
     ELSE /\ rPc' = SetP(rPc, p, "task_return")
          /\ pend' = SetP(pend, p, "err")

\* compressData / archiver.Compress up to os.Create(dstFile): the size pass,
\* the empty-source test, the creation of the artifact; and what the caller
\* does with the empty-source error (performBackup: os.Exit(0); RunBackup:
\* return nil)
GArchiveStart(p) ==
  /\ rPc[p] = "archive"
  /\ \E size \in {"err", "empty", "data"} :
       CASE size = "err" ->
              /\ ErrorPath(p)
              /\ UNCHANGED <<exitCause, rmErr, fsVars>>
         [] size = "empty" ->
              /\ logs' = Log(p, "skip_empty")
              /\ IF impl = "main"
                 THEN /\ RemoveAllTemp
                      /\ tmpDir' = FALSE
                      /\ rmErr' = SetP(rmErr, p, "nil")
                      /\ ExitProcess(p, "os_exit_0")
                      /\ pend' = pend
                 ELSE /\ pend' = SetP(pend, p, "nil")
                      /\ rPc' = SetP(rPc, p, "task_return")
                      /\ UNCHANGED <<exitCause, rmErr, fsVars>>
         [] size = "data" ->
              \E created \in BOOLEAN :
                IF created /\ ParentExists(artPath[p])
                THEN /\ files' = files \cup {artPath[p]}
                     /\ rPc' = SetP(rPc, p, "archive_write")
                     /\ UNCHANGED <<exitCause, rmErr, pend, logs, pidFile, tmpDir, taskDirs>>
                ELSE /\ ErrorPath(p)
                     /\ UNCHANGED <<exitCause, rmErr, fsVars>>
  /\ UNCHANGED <<impl, entry, rdPid, artPath, retVal, used, daemonVars, envVars>>
  /\ UNCHANGED notPipeline

\* compressData / archiver.Compress after os.Create: the compressor, the walk,
\* tw.Close, zs.Close, os.Stat(dstFile), and the deferred os.Remove(dstFile),
\* which runs for the errors assigned to the function's own err (zstd.NewWriter,
\* os.Stat) and not for those held in a shadowing err (tw.Close, zs.Close)
GArchiveFinish(p) ==
  /\ rPc[p] = "archive_write"
  /\ \E out \in {"ok", "err_removed", "err_left"} :
       /\ out = "ok" => artPath[p] \in files
       /\ IF out = "ok"
          THEN /\ rPc' = SetP(rPc, p, "upload")
               /\ UNCHANGED <<pend, logs, files>>
          ELSE /\ files' = IF out = "err_removed" THEN files \ {artPath[p]} ELSE files
               /\ ErrorPath(p)
  /\ UNCHANGED <<impl, exitCause, entry, rdPid, rmErr, artPath, retVal, used,
                 pidFile, tmpDir, taskDirs, daemonVars, envVars>>
  /\ UNCHANGED notPipeline

\* uploadToCOS / uploader.Upload as the run sees it: success, or an error
\* (os.Stat of a missing artifact, os.Open, three failed puts)
GUpload(p) ==
  /\ rPc[p] = "upload"
  /\ \E ok \in BOOLEAN :
       /\ ok => artPath[p] \in files
       /\ IF ok
          THEN /\ rPc' = SetP(rPc, p, "prune")
               /\ UNCHANGED <<pend, logs>>
          ELSE ErrorPath(p)
  /\ UNCHANGED <<impl, exitCause, entry, rdPid, rmErr, artPath, retVal, used,
                 fsVars, daemonVars, envVars>>
  /\ UNCHANGED notPipeline

\* deleteExpiredBackups / DeleteExpiredBackups as the run sees it: its error is
\* logged and nothing else
GPrune(p) ==
  /\ rPc[p] = "prune"
  /\ \E ok \in BOOLEAN :
       LET l1 == IF ok THEN logs[p] ELSE logs[p] \cup {"error_prune"}
       IN  IF impl = "main"
           THEN /\ logs' = SetP(logs, p, l1)
                /\ rPc' = SetP(rPc, p, "cleanup")
                /\ pend' = pend
           ELSE /\ logs' = SetP(logs, p, l1 \cup {"done"})
                /\ rPc' = SetP(rPc, p, "task_return")
                /\ pend' = SetP(pend, p, "nil")
  /\ UNCHANGED <<impl, exitCause, entry, rdPid, rmErr, artPath, retVal, used,
                 fsVars, daemonVars, envVars>>
  /\ UNCHANGED notPipeline

\* exitIfError(cleanupTempDir(), ...); the "done" log; return nil, and for
\* runScheduledBackup the deferred removePidFile
GCleanup(p) ==
  /\ rPc[p] = "cleanup"
  /\ \E ok \in BOOLEAN :
       IF ok
       THEN /\ RemoveAllTemp
            /\ tmpDir' = FALSE
            /\ logs' = Log(p, "done")
            /\ rmErr' = SetP(rmErr, p, "nil")
            /\ Return(p, "nil")
            /\ UNCHANGED exitCause
       ELSE /\ logs' = Log(p, "error_exit")
            /\ rmErr' = SetP(rmErr, p, "err")
            /\ ExitProcess(p, "os_exit_1")
            /\ UNCHANGED <<retVal, fsVars>>
  /\ UNCHANGED <<impl, entry, rdPid, artPath, pend, used, daemonVars, envVars>>
  /\ UNCHANGED notPipeline

\* after performBackup's error: _ = os.RemoveAll(getTempDir()); then
\* runScheduledBackup returns the error (and removePidFile runs), while
\* performOneTimeBackup calls os.Exit(1)
GFailCleanup(p) ==
  /\ rPc[p] = "fail_cleanup"
  /\ \E ok \in BOOLEAN :
       /\ files' = IF ok THEN {} ELSE files
       /\ taskDirs' = IF ok THEN {} ELSE taskDirs
       /\ tmpDir' = IF ok THEN FALSE ELSE tmpDir
       /\ rmErr' = SetP(rmErr, p, IF ok THEN "nil" ELSE "err")
       /\ IF entry[p] = "scheduled"
          THEN /\ pidFile' = Absent
               /\ Return(p, "err")
               /\ UNCHANGED exitCause
          ELSE /\ pidFile' = IF ok THEN Absent ELSE pidFile
               /\ ExitProcess(p, "os_exit_1")
               /\ UNCHANGED retVal
  /\ UNCHANGED <<impl, entry, rdPid, artPath, pend, logs, used, daemonVars, envVars>>
  /\ UNCHANGED notPipeline

\* task.RunBackup returns: the deferred os.RemoveAll(taskTempDir) runs
GTaskReturn(p) ==
  /\ rPc[p] = "task_return"
  /\ taskDirs' = taskDirs \ {p}
  /\ files' = {f \in files : ~(f[1] = "task" /\ f[2] = p)}
  /\ rmErr' = SetP(rmErr, p, "nil")
  /\ Return(p, pend[p])
  /\ UNCHANGED <<impl, exitCause, entry, rdPid, artPath, pend, logs, used,
                 pidFile, tmpDir, daemonVars, envVars>>
  /\ UNCHANGED notPipeline

RunStep(p) ==
  \/ GCheckStat(p)
  \/ GCheckRead(p)
  \/ GCheckSignal(p)
  \/ GCheckRemove(p)
  \/ GCreatePid(p)
  \/ GPrepare(p)
  \/ GTaskMkdir(p)
  \/ GArchiveStart(p)
  \/ GArchiveFinish(p)
  \/ GUpload(p)
  \/ GPrune(p)
  \/ GCleanup(p)
  \/ GFailCleanup(p)
  \/ GTaskReturn(p)

-----------------------------------------------------------------------------
(***************************************************************************)
(* The daemon loop: startDaemonMode (src/backup.go 532-692) in the main    *)
(* build, scheduler.Run (src/unnamed/part_002 17-105) in the internal one. *)
(* Time is counted in schedule slots: a day has DayLen slots and a         *)
(* schedule {hour, minute} names one slot of the day.                      *)
(***************************************************************************)

\* slots per day
DayLen == 2

\* the last instant of the model's clock
MaxTime == 3

\* writes of the configuration file in one behaviour
MaxWrites == 2

\* the object-store settings (bucket, region, credentials) a configuration names
CosSettings == {"A", "B"}

Configs == [enabled : BOOLEAN, slot : 0..(DayLen - 1), cos : CosSettings]

\* A location's calendar.  Instants are counted in hours from midnight of
\* day 0; a day has `len` hours, except that the location's clock is set by
\* `delta` hours (-1: forward, +1: back, 0: not at all) in the last hour of
\* day 0, which makes day 0 `len + delta` hours long.

\* the instant at which day k begins
DayStart(k, len, delta) == k * len + (IF k >= 1 THEN delta ELSE 0)

\* now.Year(), now.Month(), now.Day(): the day instant t lies in
DayOf(t, len, delta) == IF t < len + delta THEN 0 ELSE (t - delta) \div len

\* time.Date(year, month, day, Hour, Minute, 0, 0, loc), for an hour of the
\* day that the clock change neither skips nor repeats
DateAt(k, slot, len, delta) == DayStart(k, len, delta) + slot

\* calculateNextRunTime (src/unnamed/part_006): todayRun.After(now), else
\* todayRun.AddDate(0, 0, 1)
NextRunMain(slot, t, len, delta) ==
  LET today == DayOf(t, len, delta)
  IN  IF DateAt(today, slot, len, delta) > t
      THEN DateAt(today, slot, len, delta)
      ELSE DateAt(today + 1, slot, len, delta)

\* config.CalculateNextRunTime (src/unnamed/part_000): nextRun.Before(nowInLoc),
\* then nextRun.Add(24 * time.Hour)
NextRunInternal(slot, t, len, delta) ==
  LET today == DayOf(t, len, delta)
  IN  IF DateAt(today, slot, len, delta) < t
      THEN DateAt(today, slot, len, delta) + len
      ELSE DateAt(today, slot, len, delta)

\* time.Date(now.Year(), now.Month(), now.Day(), Hour, Minute, 0, 0, loc)
TodayRun(c, t) == DateAt(DayOf(t, DayLen, 0), c.slot, DayLen, 0)

\* calculateNextRunTime in the daemon's location, whose clock is not changed
CalculateNextRunTimeMain(c, t) == NextRunMain(c.slot, t, DayLen, 0)

\* config.CalculateNextRunTime in the daemon's location
CalculateNextRunTimeInternal(c, t) == NextRunInternal(c.slot, t, DayLen, 0)

\* the cosClient a run of the daemon uses: startDaemonMode passes the client
\* main() built before the loop; task.RunBackup builds one from its cfg
ClientOfRun == IF impl = "main" THEN client ELSE cfg.cos

\* nextRunTime := calculateNextRunTime(cfg.Backup.Schedule)
DTop ==
  /\ dPc = "top"
  /\ Alive(1)
  /\ nextRun' = IF impl = "main" THEN CalculateNextRunTimeMain(cfg, now)
                                 ELSE CalculateNextRunTimeInternal(cfg, now)
  /\ dPc' = "branch"
  /\ UNCHANGED <<impl, procVars, fsVars, cfg, client, deadline, armed, reloadChan,
                 wtPc, envVars>>
  /\ lastExit' = lastExit
  /\ UNCHANGED notPipeline

\* a loop that waits on the timer whatever the configuration says
ArmsAlways(c) == TRUE

\* if cfg.Backup.Schedule.Enabled: the select with the timer case is taken
Arms(c) == c.enabled

\* now := time.Now(); the test of Schedule.Enabled; duration and, in
\* startDaemonMode, the duration <= 0 branch waiting for tomorrow's time
DBranch ==
  /\ dPc = "branch"
  /\ armed' = Arms(cfg)
  /\ deadline' =
       IF ~cfg.enabled THEN deadline
       ELSE IF impl = "main" /\ nextRun - now <= 0
            THEN (now \div DayLen + 1) * DayLen + cfg.slot
            ELSE nextRun
  /\ dPc' = "select"
  /\ UNCHANGED <<impl, procVars, fsVars, cfg, client, nextRun, reloadChan, wtPc,
                 envVars>>
  /\ lastExit' = lastExit
  /\ UNCHANGED notPipeline

\* case <-time.After(duration): runScheduledBackup(cfg, cosClient) or
\* task.RunBackup(cfg) is called
DTimer ==
  /\ dPc = "select"
  /\ armed
  /\ now >= deadline
  /\ IF impl = "main" THEN StartRun(1, "scheduled", "chk_stat")
                      ELSE StartRun(1, "task", "task_mkdir")
  /\ used' = SetP(used, 1, [cfg |-> cfg, cos |-> ClientOfRun])
  /\ dPc' = "run"
  /\ UNCHANGED <<impl, exitCause, fsVars, cfg, client, nextRun, deadline, armed,
                 reloadChan, wtPc, envVars>>
  /\ lastExit' = "timer"
  /\ UNCHANGED notPipeline

\* the run returned to the loop, which logs a returned error and loops; the
\* returned value and the run's locals go out of scope
DAfterRun ==
  /\ dPc = "run"
  /\ rPc[1] = "idle"
  /\ dPc' = "top"
  /\ retVal' = SetP(retVal, 1, "none")
  /\ logs' = SetP(logs, 1, {})
  /\ rdPid' = SetP(rdPid, 1, 0)
  /\ rmErr' = SetP(rmErr, 1, "none")
  /\ artPath' = SetP(artPath, 1, NoPath)
  /\ pend' = SetP(pend, 1, "none")
  /\ UNCHANGED <<impl, exitCause, rPc, entry, used, fsVars, cfg, client, nextRun,
                 deadline, armed, reloadChan, wtPc, envVars>>
  /\ lastExit' = lastExit
  /\ UNCHANGED notPipeline

\* reloadConfigSafe / the reload branch: the configuration after loadConfig
\* of a file holding f
Reloaded(c, f) == IF f = BadFile THEN c ELSE f

\* case <-configReloadChan: loadConfig(cfgPath); cfg = newCfg on success
DReload ==
  /\ dPc = "select"
  /\ reloadChan = 1
  /\ reloadChan' = 0
  /\ cfg' = Reloaded(cfg, cfgFile)
  /\ lastLoaded' = IF cfgFile = BadFile THEN lastLoaded ELSE cfgFile
  /\ dPc' = "top"
  /\ UNCHANGED <<impl, procVars, fsVars, client, nextRun, deadline, armed, wtPc,
                 now, cfgFile, fsEvents, sigChan, sigFired, writes>>
  /\ lastExit' = "reload"
  /\ UNCHANGED notPipeline

\* case <-sigChan: return
DSignal ==
  /\ dPc = "select"
  /\ sigChan = 1
  /\ sigChan' = 0
  /\ dPc' = "exited"
  /\ exitCause' = SetP(exitCause, 1, "signal")
  /\ UNCHANGED <<impl, rPc, entry, rdPid, rmErr, artPath, pend, retVal, logs, used, fsVars,
                 cfg, client, nextRun, deadline, armed, reloadChan, wtPc,
                 now, cfgFile, fsEvents, sigFired, lastLoaded, writes>>
  /\ lastExit' = lastExit
  /\ UNCHANGED notPipeline

\* the watcher goroutine: case event := <-watcher.Events with Op&Write
WatcherRecv ==
  /\ Alive(1)
  /\ wtPc = "recv"
  /\ fsEvents > 0
  /\ fsEvents' = fsEvents - 1
  /\ wtPc' = "send"
  /\ UNCHANGED <<impl, procVars, fsVars, dPc, cfg, client, nextRun, deadline, armed,
                 reloadChan, now, cfgFile, sigChan, sigFired, lastLoaded, writes>>
  /\ lastExit' = lastExit
  /\ UNCHANGED notPipeline

\* the watcher goroutine: configReloadChan <- true, a blocking send
WatcherSend ==
  /\ Alive(1)
  /\ wtPc = "send"
  /\ reloadChan = 0
  /\ reloadChan' = 1
  /\ wtPc' = "recv"
  /\ UNCHANGED <<impl, procVars, fsVars, dPc, cfg, client, nextRun, deadline, armed,
                 now, cfgFile, fsEvents, sigChan, sigFired, lastLoaded, writes>>
  /\ lastExit' = lastExit
  /\ UNCHANGED notPipeline

\* the environment: the clock advances
Tick ==
  /\ now < MaxTime
  /\ now' = now + 1
  /\ UNCHANGED <<impl, procVars, fsVars, daemonVars, cfgFile, fsEvents, sigChan,
                 sigFired, lastLoaded, writes>>
  /\ UNCHANGED notPipeline

\* the environment: the configuration file is written
WriteConfig ==
  /\ writes < MaxWrites
  /\ writes' = writes + 1
  /\ \E f \in Configs \cup {BadFile} : cfgFile' = f
  /\ fsEvents' = fsEvents + 1
  /\ UNCHANGED <<impl, procVars, fsVars, daemonVars, now, sigChan, sigFired,
                 lastLoaded>>
  /\ UNCHANGED notPipeline

\* the environment: SIGINT or SIGTERM is delivered; signal.Notify's send to the
\* capacity-1 sigChan does not block
SendSignal ==
  /\ Alive(1)
  /\ sigChan' = 1
  /\ sigFired' = TRUE
  /\ UNCHANGED <<impl, procVars, fsVars, daemonVars, now, cfgFile, fsEvents,
                 lastLoaded, writes>>
  /\ UNCHANGED notPipeline

GInit ==
  /\ impl \in {"main", "internal"}
  /\ exitCause = [p \in Procs |-> "none"]
  /\ rPc = [p \in Procs |-> "idle"]
  /\ entry = [p \in Procs |-> "none"]
  /\ rdPid = [p \in Procs |-> 0]
  /\ rmErr = [p \in Procs |-> "none"]
  /\ artPath = [p \in Procs |-> NoPath]
  /\ pend = [p \in Procs |-> "none"]
  /\ retVal = [p \in Procs |-> "none"]
  /\ logs = [p \in Procs |-> {}]
  /\ used = [p \in Procs |-> NoUse]
  /\ pidFile \in {Absent, Garbage, PidText(DeadPid)}
  /\ tmpDir = TRUE
  /\ files = {}
  /\ taskDirs = {}
  /\ dPc = "top"
  /\ cfg \in {c \in Configs : c.cos = "A"}
  /\ client = cfg.cos
  /\ nextRun = 0
  /\ deadline = 0
  /\ armed = FALSE
  /\ reloadChan = 0
  /\ wtPc = "recv"
  /\ lastExit = "none"
  /\ now = 0
  /\ cfgFile = cfg
  /\ fsEvents = 0
  /\ sigChan = 0
  /\ sigFired = FALSE
  /\ lastLoaded = cfg
  /\ writes = 0

\* the daemon at its start, with room for one more write of config.toml
LoopInit ==
  /\ impl \in {"main", "internal"}
  /\ exitCause = [p \in Procs |-> "none"]
  /\ rPc = [p \in Procs |-> "idle"]
  /\ entry = [p \in Procs |-> "none"]
  /\ rdPid = [p \in Procs |-> 0]
  /\ rmErr = [p \in Procs |-> "none"]
  /\ artPath = [p \in Procs |-> NoPath]
  /\ pend = [p \in Procs |-> "none"]
  /\ retVal = [p \in Procs |-> "none"]
  /\ logs = [p \in Procs |-> {}]
  /\ used = [p \in Procs |-> NoUse]
  /\ pidFile \in {Absent, Garbage, PidText(DeadPid)}
  /\ tmpDir = TRUE
  /\ files = {}
  /\ taskDirs = {}
  /\ dPc = "top"
  /\ cfg \in {c \in Configs : c.cos = "A"}
  /\ client = cfg.cos
  /\ nextRun = 0
  /\ deadline = 0
  /\ armed = FALSE
  /\ reloadChan = 0
  /\ wtPc = "recv"
  /\ lastExit = "none"
  /\ now = 0
  /\ cfgFile = cfg
  /\ fsEvents = 0
  /\ sigChan = 0
  /\ sigFired = FALSE
  /\ lastLoaded = cfg
  /\ writes = MaxWrites - 1

\* two processes of one build in one working directory, each triggered at
\* any time
GuardInit ==
  /\ impl \in {"main", "internal"}
  /\ exitCause = [p \in Procs |-> "none"]
  /\ rPc = [p \in Procs |-> "idle"]
  /\ entry = [p \in Procs |-> "none"]
  /\ rdPid = [p \in Procs |-> 0]
  /\ rmErr = [p \in Procs |-> "none"]
  /\ artPath = [p \in Procs |-> NoPath]
  /\ pend = [p \in Procs |-> "none"]
  /\ retVal = [p \in Procs |-> "none"]
  /\ logs = [p \in Procs |-> {}]
  /\ used = [p \in Procs |-> NoUse]
  /\ pidFile \in {Absent, Garbage, PidText(DeadPid)}
  /\ tmpDir = TRUE
  /\ files = {}
  /\ taskDirs = {}
  /\ dPc = "idle"
  /\ cfg = [enabled |-> FALSE, slot |-> 0, cos |-> "A"]
  /\ client = "A"
  /\ nextRun = 0
  /\ deadline = 0
  /\ armed = FALSE
  /\ reloadChan = 0
  /\ wtPc = "recv"
  /\ lastExit = "none"
  /\ now = 0
  /\ cfgFile = BadFile
  /\ fsEvents = 0
  /\ sigChan = 0
  /\ sigFired = FALSE
  /\ lastLoaded = BadFile
  /\ writes = 0

GuardNext ==
  \/ \E p \in Procs : GTrigger(p)
  \/ \E p \in Procs : RunStep(p)

GNext ==
  \/ RunStep(1)
  \/ DTop
  \/ DBranch
  \/ DTimer
  \/ DAfterRun
  \/ DReload
  \/ DSignal
  \/ WatcherRecv
  \/ WatcherSend
  \/ Tick
  \/ WriteConfig
  \/ SendSignal

-----------------------------------------------------------------------------
(***************************************************************************)
(* The next-run computation on its own: one call of calculateNextRunTime   *)
(* (src/unnamed/part_006 2529-2558) or config.CalculateNextRunTime         *)
(* (src/unnamed/part_000 113-141) for a schedule, a time zone setting and  *)
(* an instant.                                                             *)
(***************************************************************************)

\* hours per day of the calendar
HoursPerDay == 4

\* the last instant drawn for time.Now()
MaxNow == 9

\* schedule.Timezone: not set, a name time.LoadLocation rejects, and names of
\* locations whose clock is set forward, set back, or never changed
TzSettings == {"", "Not/AZone", "Zone/Forward", "Zone/Back", "Zone/Fixed"}

\* the clock change of the location the function computes in: time.Local (a
\* location without a change here) when Timezone is empty or does not load
ClockChange(tz) ==
  CASE tz = "Zone/Forward" -> -1
    [] tz = "Zone/Back" -> 1
    [] OTHER -> 0

NInit ==
  /\ nrPc = "start"
  /\ nrBuild = "none"
  /\ nrTz \in TzSettings
  /\ nrSlot \in 0..(HoursPerDay - 2)
  /\ nrNow \in 0..MaxNow
  /\ nrOut = 0

\* calculateNextRunTime(schedule)
NCallMain ==
  /\ nrPc = "start"
  /\ nrPc' = "done"
  /\ nrBuild' = "main"
  /\ nrOut' = NextRunMain(nrSlot, nrNow, HoursPerDay, ClockChange(nrTz))
  /\ UNCHANGED <<nrTz, nrSlot, nrNow>>
  /\ UNCHANGED notNextRun

\* config.CalculateNextRunTime(schedule)
NCallInternal ==
  /\ nrPc = "start"
  /\ nrPc' = "done"
  /\ nrBuild' = "internal"
  /\ nrOut' = NextRunInternal(nrSlot, nrNow, HoursPerDay, ClockChange(nrTz))
  /\ UNCHANGED <<nrTz, nrSlot, nrNow>>
  /\ UNCHANGED notNextRun

NNext == NCallMain \/ NCallInternal

NIdle ==
  /\ nrPc = "idle"
  /\ nrBuild = "none"
  /\ nrTz = ""
  /\ nrSlot = 0
  /\ nrNow = 0
  /\ nrOut = 0

-----------------------------------------------------------------------------
(***************************************************************************)
(* progressReader.Read: src/config.go 339-376 and src/unnamed/part_004     *)
(* 104-141, the same code.  The rate and the ETA passed to onTick are left *)
(* out: an event is the pair <<read, total>>.                              *)
(***************************************************************************)

\* the largest total size drawn
MaxTotal == 3

\* the largest refresh interval drawn, in clock ticks
MaxInterval == 2

\* the last instant of the reader's clock
MaxClock == 3

\* p.lastTime.IsZero() || now.Sub(p.lastTime) >= p.interval
NeedRegularTick(last, t, iv) == last = 0 \/ t - last >= iv

\* err == io.EOF && p.read == p.total && !p.finished
NeedFinalTick(err, read, total, finished) ==
  err = "EOF" /\ read = total /\ ~finished

RInit ==
  /\ rdTotal \in 0..MaxTotal
  /\ rdLeft = rdTotal
  /\ rdEofWithData \in BOOLEAN
  /\ rdInterval \in 1..MaxInterval
  /\ rdRead = 0
  /\ rdFinished = FALSE
  /\ rdLastTime = 0
  /\ rdClock = 1
  /\ rdRet = <<0, "none">>
  /\ rdEvents = <<>>

\* one call of Read on a finished reader: return 0, io.EOF
RReadFinished ==
  /\ rdFinished
  /\ rdRet' = <<0, "EOF">>
  /\ UNCHANGED <<rdTotal, rdLeft, rdEofWithData, rdInterval, rdRead, rdFinished,
                 rdLastTime, rdClock, rdEvents>>
  /\ UNCHANGED notProgress

\* one call of Read on a reader that is not finished: p.r.Read(b) returns n
\* bytes and err; read is advanced; the tick tests; onTick
RRead ==
  /\ ~rdFinished
  /\ \E n \in 0..rdLeft :
       /\ (n = 0) = (rdLeft = 0)
       /\ LET err  == IF rdLeft = 0 \/ (n = rdLeft /\ rdEofWithData)
                      THEN "EOF" ELSE "nil"
              read == rdRead + n
              final == NeedFinalTick(err, read, rdTotal, rdFinished)
              tick == NeedRegularTick(rdLastTime, rdClock, rdInterval) \/ final
          IN  /\ rdLeft' = rdLeft - n
              /\ rdRead' = read
              /\ rdFinished' = (rdFinished \/ final)
              /\ rdEvents' = IF tick THEN Append(rdEvents, <<read, rdTotal>>)
                                     ELSE rdEvents
              /\ rdLastTime' = IF tick THEN rdClock ELSE rdLastTime
              /\ rdRet' = <<n, err>>
  /\ UNCHANGED <<rdTotal, rdEofWithData, rdInterval, rdClock>>
  /\ UNCHANGED notProgress

\* time passes between two calls
RTick ==
  /\ rdClock < MaxClock
  /\ rdClock' = rdClock + 1
  /\ UNCHANGED <<rdTotal, rdLeft, rdEofWithData, rdInterval, rdRead, rdFinished,
                 rdLastTime, rdRet, rdEvents>>
  /\ UNCHANGED notProgress

RNext == RRead \/ RReadFinished \/ RTick

RIdle ==
  /\ rdTotal = 0
  /\ rdLeft = 0
  /\ rdEofWithData = FALSE
  /\ rdInterval = 1
  /\ rdRead = 0
  /\ rdFinished = TRUE
  /\ rdLastTime = 0
  /\ rdClock = 0
  /\ rdRet = <<0, "none">>
  /\ rdEvents = <<>>

-----------------------------------------------------------------------------
(***************************************************************************)
(* CalculateDirSize, addTarEntry and Compress                              *)
(* (src/internal/core/archiver/archiver_test.go 148-415; src/backup.go     *)
(* 23-295 is the same code under package main).                            *)
(*                                                                         *)
(* A path is the sequence of its elements below srcDir, <<>> for srcDir    *)
(* itself.  A link target is the sequence of the elements of the string    *)
(* os.Readlink returns, with "/" as first element for an absolute one.     *)
(* With `faults` false every file and directory is readable and every      *)
(* write succeeds; with `faults` true d.Info of the size pass, os.Create,   *)
(* zstd.NewWriter, os.Open / io.Copy of a regular file, a write to the      *)
(* destination, tw.Close, zs.Close and os.Stat can fail.                    *)
(***************************************************************************)

\* the longest file content drawn
MaxFileLen == 1

\* the symlinks os.Stat follows before it gives up with ELOOP
MaxLinkHops == 3

Bytes == {0, 1}

FileData == UNION {[1..n -> Bytes] : n \in 0..MaxFileLen}

Root == <<>>

\* the paths a tree may hold, in the order filepath.WalkDir reaches them
\* (lexical, a directory before its entries)
PathSeq == << Root, <<"a">>, <<"b">>, <<"d">>, <<"d", "x">> >>

Paths == {PathSeq[i] : i \in 1..Len(PathSeq)}

\* the link targets drawn: a sibling, itself or the other link, a directory,
\* the directory of the link, its parent, a path through a directory, a name
\* that does not exist, an absolute path
LinkTargets ==
  { <<"a">>, <<"b">>, <<"d">>, <<"x">>, <<".">>, <<"..">>, <<"d", "x">>,
    <<"missing">>, <<"/", "abs">> }

None == [kind |-> "none", data |-> <<>>, link |-> <<>>]

DirNode == [kind |-> "dir", data |-> <<>>, link |-> <<>>]

Special == [kind |-> "special", data |-> <<>>, link |-> <<>>]

Files == {[kind |-> "file", data |-> c, link |-> <<>>] : c \in FileData}

Links == {[kind |-> "link", data |-> <<>>, link |-> l] : l \in LinkTargets}

\* filepath.Dir
Dir(p) == IF p = Root THEN Root ELSE SubSeq(p, 1, Len(p) - 1)

\* filepath.Clean on the elements: "." and the root "/" of a joined absolute
\* path drop out, ".." removes the element before it when there is one
RECURSIVE CleanInto(_, _)
CleanInto(done, rest) ==
  IF rest = <<>> THEN done
  ELSE LET e == Head(rest)
       IN  IF e = "." \/ e = "/" THEN CleanInto(done, Tail(rest))
           ELSE IF e = ".." /\ done # <<>> /\ done[Len(done)] # ".."
                THEN CleanInto(SubSeq(done, 1, Len(done) - 1), Tail(rest))
                ELSE CleanInto(Append(done, e), Tail(rest))

\* filepath.Abs(filepath.Join(filepath.Dir(p), link)), relative to srcDir
AbsTarget(p, link) == CleanInto(<<>>, Dir(p) \o link)

\* strings.Contains(link, ".."): no name of the model holds two dots
ContainsDotDot(link) == \E i \in 1..Len(link) : link[i] = ".."

\* filepath.IsAbs
IsAbs(link) == link # <<>> /\ link[1] = "/"

\* what is at path q of tree t; nothing above srcDir or off PathSeq
NodeAt(t, q) == IF q \in Paths THEN t[q] ELSE None

\* os.Stat of the path made of directory dir and the elements rest, following
\* symlinks: "ok", "notexist", or "error" for ELOOP and ENOTDIR
RECURSIVE StatFrom(_, _, _, _)
StatFrom(t, dir, rest, hops) ==
  IF rest = <<>> THEN "ok"
  ELSE LET e == Head(rest)
       IN  IF e = "." THEN StatFrom(t, dir, Tail(rest), hops)
           ELSE IF e = ".." THEN StatFrom(t, Dir(dir), Tail(rest), hops)
           ELSE LET q == Append(dir, e)
                    n == NodeAt(t, q)
                IN  IF n.kind = "none" THEN "notexist"
                    ELSE IF n.kind = "link"
                         THEN IF hops = 0 THEN "error"
                              ELSE StatFrom(t, dir, n.link \o Tail(rest), hops - 1)
                    ELSE IF n.kind = "dir" THEN StatFrom(t, q, Tail(rest), hops)
                    ELSE IF Tail(rest) = <<>> THEN "ok" ELSE "error"

\* os.Stat(filepath.Join(filepath.Dir(p), link)) for a relative link
StatTarget(t, p, link) == StatFrom(t, Dir(p), link, MaxLinkHops)

\* os.ReadDir of directory p, as filepath.WalkDir uses it: the entries sorted
\* by name
ReadDir(t, p) ==
  SelectSeq(PathSeq, LAMBDA q : /\ Len(q) = Len(p) + 1
                                /\ SubSeq(q, 1, Len(p)) = p
                                /\ t[q].kind # "none")

\* a walk that enters what a symlink points to
WalkEntersLinks(t, p) ==
  IF t[p].kind = "dir" THEN ReadDir(t, p)
  ELSE IF t[p].kind = "link" /\ AbsTarget(p, t[p].link) \in Paths
          /\ t[AbsTarget(p, t[p].link)].kind = "dir"
       THEN ReadDir(t, AbsTarget(p, t[p].link))
       ELSE <<>>

\* filepath.WalkDir after the callback returned nil for p: the entries of p
\* are walked next when p is a directory; a symlink is never entered
WalkEnters(t, p) == IF t[p].kind = "dir" THEN ReadDir(t, p) ELSE <<>>

\* info.Size(): the length of a regular file's content; for a symlink the
\* length of its target; for the rest a number the filesystem chooses, not 0
InfoSize(n) ==
  IF n.kind = "file" THEN Len(n.data)
  ELSE IF n.kind = "link" THEN Len(n.link)
  ELSE 1

\* a test that takes symlinks for regular files
IsRegularOrLink(n) == n.kind = "file" \/ n.kind = "link"

\* d.Type().IsRegular()
IsRegular(n) == n.kind = "file"

\* d.Type()&os.ModeSymlink != 0
IsSymlink(n) == n.kind = "link"

\* the symlink test of both callbacks: the target path is already visited
TargetVisited(p, n, vis) == IsSymlink(n) /\ AbsTarget(p, n.link) \in vis

\* a policy that lets every symlink through
LinkRejectedNever(t, p, link) == FALSE

\* addTarEntry's symlink policy: the entry is skipped when the target holds
\* "..", is absolute, or does not exist
LinkRejected(t, p, link) ==
  \/ ContainsDotDot(link)
  \/ IsAbs(link)
  \/ StatTarget(t, p, link) = "notexist"

\* a tar header with what follows it: the name is filepath.ToSlash(rel) as
\* its elements, a directory's name ending in an empty element for its "/"
Entry(name, type, linkname, data) ==
  [name |-> name, type |-> type, linkname |-> linkname, data |-> data]

\* addTarEntry: the entries written for path p
addTarEntry(t, p) ==
  LET n == t[p]
  IN  IF p = Root THEN <<>>
      ELSE IF IsSymlink(n)
           THEN IF LinkRejected(t, p, n.link) THEN <<>>
                ELSE << Entry(p, "symlink", n.link, <<>>) >>
      ELSE IF n.kind = "dir" THEN << Entry(Append(p, ""), "dir", <<>>, <<>>) >>
      ELSE IF IsRegular(n) THEN << Entry(p, "reg", <<>>, n.data) >>
      ELSE << Entry(p, "other", <<>>, <<>>) >>

AInit ==
  /\ \E na \in {None, Special} \cup Files \cup Links,
        nb \in {None} \cup Files \cup Links,
        nd \in {None, DirNode} \cup Links :
       \E nx \in IF nd.kind = "dir" THEN {None} \cup Files \cup Links ELSE {None} :
         tree = (Root :> DirNode) @@ (<<"a">> :> na) @@ (<<"b">> :> nb)
                @@ (<<"d">> :> nd) @@ (<<"d", "x">> :> nx)
  /\ aPc = "size"
  /\ walk = << Root >>
  /\ visited = {}
  /\ originalSize = 0
  /\ tarEntries = <<>>
  /\ processedFiles = 0
  /\ skippedFiles = 0
  /\ sizeSeen = <<>>
  /\ tarSeen = <<>>
  /\ aRet = "none"
  /\ faults = FALSE
  /\ twState = "none"
  /\ dstFile = FALSE

\* the same trees, on a filesystem whose calls can fail
AFaultInit ==
  /\ \E na \in {None, Special} \cup Files \cup Links,
        nb \in {None} \cup Files \cup Links,
        nd \in {None, DirNode} \cup Links :
       \E nx \in IF nd.kind = "dir" THEN {None} \cup Files \cup Links ELSE {None} :
         tree = (Root :> DirNode) @@ (<<"a">> :> na) @@ (<<"b">> :> nb)
                @@ (<<"d">> :> nd) @@ (<<"d", "x">> :> nx)
  /\ aPc = "size"
  /\ walk = << Root >>
  /\ visited = {}
  /\ originalSize = 0
  /\ tarEntries = <<>>
  /\ processedFiles = 0
  /\ skippedFiles = 0
  /\ sizeSeen = <<>>
  /\ tarSeen = <<>>
  /\ aRet = "none"
  /\ faults = TRUE
  /\ twState = "none"
  /\ dstFile = FALSE

\* CalculateDirSize: filepath.WalkDir hands the next path to the callback;
\* an error of d.Info() on a regular file ends the walk, and Compress
\* returns it before the destination is created
ASizeStep ==
  /\ aPc = "size"
  /\ walk # <<>>
  /\ LET p == Head(walk)
         n == tree[p]
     IN  /\ sizeSeen' = Append(sizeSeen, p)
         /\ \/ /\ IF TargetVisited(p, n, visited)
                  THEN UNCHANGED <<originalSize, visited>>
                  ELSE /\ originalSize' = IF IsRegular(n) THEN originalSize + InfoSize(n)
                                                   ELSE originalSize
                       /\ visited' = visited \cup {p}
               /\ walk' = WalkEnters(tree, p) \o Tail(walk)
               /\ UNCHANGED <<aPc, aRet>>
            \/ /\ faults
               /\ ~TargetVisited(p, n, visited)
               /\ IsRegular(n)
               /\ aPc' = "done"
               /\ aRet' = "err_size"
               /\ UNCHANGED <<originalSize, visited, walk>>
  /\ UNCHANGED <<tree, tarEntries, processedFiles, skippedFiles, tarSeen,
                 faults, twState, dstFile>>
  /\ UNCHANGED notArchive

\* the deferred func of Compress: os.Remove(dstFile) runs when the function's
\* own err is not nil at the return, as after zstd.NewWriter and os.Stat; the
\* errors of tw.Close and zs.Close live in an err of the if statement
DeferredRemoves(ret) == ret \in {"err_zstd", "err_stat"}

\* Compress after CalculateDirSize returned: an empty source is an error,
\* otherwise os.Create and zstd.NewWriter, and the archive pass begins with
\* a fresh visited map
ASizeReturn ==
  /\ aPc = "size"
  /\ walk = <<>>
  /\ IF originalSize = 0
     THEN /\ aPc' = "done"
          /\ aRet' = "err_empty"
          /\ UNCHANGED <<walk, visited, twState, dstFile>>
     ELSE \E out \in (IF faults THEN {"ok", "err_create", "err_zstd"} ELSE {"ok"}) :
            IF out = "ok"
            THEN /\ aPc' = "archive"
                 /\ walk' = << Root >>
                 /\ visited' = {}
                 /\ twState' = "ok"
                 /\ dstFile' = TRUE
                 /\ UNCHANGED aRet
            ELSE /\ aPc' = "done"
                 /\ aRet' = out
                 /\ dstFile' = (out # "err_create" /\ ~DeferredRemoves(out))
                 /\ UNCHANGED <<walk, visited, twState>>
  /\ UNCHANGED <<tree, originalSize, tarEntries, processedFiles, skippedFiles, sizeSeen,
                 tarSeen, faults>>
  /\ UNCHANGED notArchive

\* the path reaches tw.WriteHeader in addTarEntry
WritesHeader(t, p) == addTarEntry(t, p) # <<>>

\* tw.WriteHeader begins with tw.Flush, which refuses while the entry before
\* lacks bytes its header announced, and returns the error of a failed write
HeaderAccepted(st) == st = "ok"

\* how many bytes of a regular file reach the archive when os.Open or
\* io.Copy fails: none, or a proper prefix
ShortReads(n) == 0..(IF Len(n.data) = 0 THEN 0 ELSE Len(n.data) - 1)

\* Compress: filepath.WalkDir hands the next path to the callback; an error
\* of addTarEntry is logged and counted, and the callback returns nil
AArchiveStep ==
  /\ aPc = "archive"
  /\ walk # <<>>
  /\ LET p == Head(walk)
         n == tree[p]
     IN  /\ tarSeen' = Append(tarSeen, p)
         /\ IF TargetVisited(p, n, visited)
            THEN /\ skippedFiles' = skippedFiles + 1
                 /\ UNCHANGED <<visited, tarEntries, processedFiles, twState>>
            ELSE /\ visited' = visited \cup {p}
                 /\ \/ /\ ~WritesHeader(tree, p) \/ HeaderAccepted(twState)
                       /\ tarEntries' = tarEntries \o addTarEntry(tree, p)
                       /\ processedFiles' = processedFiles + 1
                       /\ UNCHANGED <<skippedFiles, twState>>
                    \/ /\ WritesHeader(tree, p)
                       /\ ~HeaderAccepted(twState)
                       /\ skippedFiles' = skippedFiles + 1
                       /\ UNCHANGED <<tarEntries, processedFiles, twState>>
                    \/ /\ faults
                       /\ WritesHeader(tree, p)
                       /\ HeaderAccepted(twState)
                       /\ twState' = "broken"
                       /\ skippedFiles' = skippedFiles + 1
                       /\ UNCHANGED <<tarEntries, processedFiles>>
                    \/ /\ faults
                       /\ IsRegular(n)
                       /\ HeaderAccepted(twState)
                       /\ \E k \in ShortReads(n) :
                            /\ tarEntries' = Append(tarEntries,
                                                    Entry(p, "reg", <<>>, SubSeq(n.data, 1, k)))
                            /\ twState' = IF k < Len(n.data) THEN "short" ELSE "ok"
                       /\ skippedFiles' = skippedFiles + 1
                       /\ UNCHANGED processedFiles
         /\ walk' = WalkEnters(tree, p) \o Tail(walk)
  /\ UNCHANGED <<tree, aPc, originalSize, sizeSeen, aRet, faults, dstFile>>
  /\ UNCHANGED notArchive

\* Compress after the walk: tw.Close (tw.Flush first), zs.Close, os.Stat of
\* the destination, and the deferred func
AArchiveReturn ==
  /\ aPc = "archive"
  /\ walk = <<>>
  /\ aPc' = "done"
  /\ \E out \in (IF ~HeaderAccepted(twState) THEN {"err_tw_close"}
                 ELSE IF faults THEN {"ok", "err_tw_close", "err_zs_close", "err_stat"}
                 ELSE {"ok"}) :
       /\ aRet' = out
       /\ dstFile' = ~DeferredRemoves(out)
  /\ UNCHANGED <<tree, walk, visited, originalSize, tarEntries, processedFiles,
                 skippedFiles, sizeSeen, tarSeen, faults, twState>>
  /\ UNCHANGED notArchive

ANext == ASizeStep \/ ASizeReturn \/ AArchiveStep \/ AArchiveReturn

AIdle ==
  /\ tree = [q \in Paths |-> None]
  /\ aPc = "done"
  /\ walk = <<>>
  /\ visited = {}
  /\ originalSize = 0
  /\ tarEntries = <<>>
  /\ processedFiles = 0
  /\ skippedFiles = 0
  /\ sizeSeen = <<>>
  /\ tarSeen = <<>>
  /\ aRet = "none"
  /\ faults = FALSE
  /\ twState = "none"
  /\ dstFile = FALSE

-----------------------------------------------------------------------------
(***************************************************************************)
(* The specifications                                                      *)
(***************************************************************************)

UIdle ==
  /\ uPc = "idle"
  /\ attempt = 0
  /\ fileSize = 0
  /\ fOpen = FALSE
  /\ prRead = 0
  /\ lastErr = NilErr
  /\ uRet = NoRet
  /\ uTrace = <<>>
  /\ envInterval = <<>>
  /\ interval = 0
  /\ warned = "none"

PIdle ==
  /\ pPc = "idle"
  /\ keepDays = 0
  /\ objects = {}
  /\ marker = <<>>
  /\ page = <<>>
  /\ pageIdx = 0
  /\ isTruncated = FALSE
  /\ tasks = <<>>
  /\ tasksClosed = FALSE
  /\ wPc = [w \in WorkerIds |-> "none"]
  /\ wKey = [w \in WorkerIds |-> <<>>]
  /\ wOk = [w \in WorkerIds |-> FALSE]
  /\ mu = 0
  /\ wTmp = [w \in WorkerIds |-> 0]
  /\ counters = ZeroCounters
  /\ delCalls = [k \in Keys |-> 0]
  /\ listCalls = 0
  /\ listed = {}
  /\ pRet = "none"

GIdle ==
  /\ impl = "main"
  /\ exitCause = [p \in Procs |-> "none"]
  /\ rPc = [p \in Procs |-> "idle"]
  /\ entry = [p \in Procs |-> "none"]
  /\ rdPid = [p \in Procs |-> 0]
  /\ rmErr = [p \in Procs |-> "none"]
  /\ artPath = [p \in Procs |-> NoPath]
  /\ pend = [p \in Procs |-> "none"]
  /\ retVal = [p \in Procs |-> "none"]
  /\ logs = [p \in Procs |-> {}]
  /\ used = [p \in Procs |-> NoUse]
  /\ pidFile = Absent
  /\ tmpDir = TRUE
  /\ files = {}
  /\ taskDirs = {}
  /\ dPc = "idle"
  /\ cfg = [enabled |-> FALSE, slot |-> 0, cos |-> "A"]
  /\ client = "A"
  /\ nextRun = 0
  /\ deadline = 0
  /\ armed = FALSE
  /\ reloadChan = 0
  /\ wtPc = "recv"
  /\ lastExit = "none"
  /\ now = 0
  /\ cfgFile = BadFile
  /\ fsEvents = 0
  /\ sigChan = 0
  /\ sigFired = FALSE
  /\ lastLoaded = BadFile
  /\ writes = 0

\* Upload alone
InitUpload == UInit /\ PIdle /\ GIdle /\ NIdle /\ RIdle /\ AIdle

SpecUpload == InitUpload /\ [][UNext]_vars

\* DeleteExpiredBackups alone
InitPrune == PInit /\ UIdle /\ GIdle /\ NIdle /\ RIdle /\ AIdle

SpecPrune == InitPrune /\ [][PNext]_vars

\* DeleteExpiredBackups on dated backups, where every listing and delete
\* call returns and every goroutine that can run does run
InitPool == PoolInit /\ UIdle /\ GIdle /\ NIdle /\ RIdle /\ AIdle

SpecPoolLive == InitPool /\ [][PNext]_vars /\ WF_vars(PNext)

\* the run guard: two processes, triggers at any time
InitGuard == GuardInit /\ UIdle /\ PIdle /\ NIdle /\ RIdle /\ AIdle

SpecGuard == InitGuard /\ [][GuardNext]_vars

\* one next-run computation
InitNextRun == NInit /\ UIdle /\ PIdle /\ GIdle /\ RIdle /\ AIdle

SpecNextRun == InitNextRun /\ [][NNext]_vars

\* one progress reader, read to its end and beyond
InitProgress == RInit /\ UIdle /\ PIdle /\ GIdle /\ NIdle /\ AIdle

SpecProgress == InitProgress /\ [][RNext]_vars

\* one call of Compress on one source tree
InitArchive == AInit /\ UIdle /\ PIdle /\ GIdle /\ NIdle /\ RIdle

SpecArchive == InitArchive /\ [][ANext]_vars

\* the same, where a walk that can go on does go on
SpecArchiveLive == SpecArchive /\ WF_vars(ANext)

\* Compress on a filesystem whose calls can fail
InitArchiveIO == AFaultInit /\ UIdle /\ PIdle /\ GIdle /\ NIdle /\ RIdle

SpecArchiveIO == InitArchiveIO /\ [][ANext]_vars

\* the daemon loop and its runs, config.toml written at most once
InitLoop == LoopInit /\ UIdle /\ PIdle /\ NIdle /\ RIdle /\ AIdle

SpecLoop == InitLoop /\ [][GNext]_vars

\* the daemon loop and its runs
InitSched == GInit /\ UIdle /\ PIdle /\ NIdle /\ RIdle /\ AIdle

SpecSched == InitSched /\ [][GNext]_vars

-----------------------------------------------------------------------------
(***************************************************************************)
(* Properties of DeleteExpiredBackups (under SpecPrune)                    *)
(***************************************************************************)

\* the keys a delete call was issued for
DeleteCalled == {k \in Keys : delCalls[k] > 0}

\* by hand, for each key of the bucket that is an object named
\* backup-<timestamp>.tar.zst with a well-formed timestamp: its day
BackupDay == (KOld :> 0) @@ (KMid :> 1) @@ (KNew :> 3)

\* by hand, the same for each key whose base name (the last path element,
\* trailing separators dropped) is such a name: the placeholder key
\* backup/backup-D0.tar.zst/ has one
BaseNameDay == BackupDay @@ (KDirLike :> 0)

\* by hand: the keys that are no backup object: foreign names, a timestamp
\* that does not parse, directory placeholders
NotBackupKeys == {KDir, KDirLike, KJunk, KOtherSuffix, KOtherPrefix}

\* C2 (as stated): after DeleteExpiredBackups returns with keepDays = d > 0,
\* the keys a delete was performed for are exactly the listed keys whose base
\* name matches backup-<timestamp>.tar.zst, whose timestamp parses, and whose
\* timestamp is strictly before now - d days.
C2_AsStated ==
  (pPc = "returned" /\ keepDays > 0) =>
    DeleteCalled = {k \in listed \cap DOMAIN BaseNameDay :
                      BaseNameDay[k] < NowDay - keepDays}

\* C2 (amended): after DeleteExpiredBackups returns with keepDays = d > 0, the
\* keys a delete was performed for are exactly the listed keys that do not end
\* in "/" (no directory placeholder), whose base name matches
\* backup-<timestamp>.tar.zst, whose timestamp parses, and whose timestamp is
\* strictly before now - d days; a key whose timestamp equals the cutoff is kept.
C2_RetentionExact ==
  (pPc = "returned" /\ keepDays > 0) =>
    DeleteCalled = {k \in listed \cap DOMAIN BackupDay :
                      BackupDay[k] < NowDay - keepDays}

\* a returned call that listed an expired backup, a backup exactly at the
\* cutoff and a foreign object, deleted the first and kept the others
C2_Witness ==
  /\ pPc = "returned"
  /\ keepDays = 1
  /\ {KMid, KNew, KOtherPrefix} \subseteq listed
  /\ delCalls[KMid] > 0
  /\ delCalls[KNew] = 0
  /\ delCalls[KOtherPrefix] = 0

\* C3: in every state of a prune call no delete call was issued for a key whose
\* base name does not match backup-*.tar.zst, for a directory placeholder key
\* ending in "/", or for a matching name whose timestamp does not parse,
\* whatever the key's age and whatever listing or delete call failed.
C3_ForeignObjectSafety ==
  \A k \in NotBackupKeys :
    /\ delCalls[k] = 0
    /\ \A i \in 1..Len(tasks) : tasks[i] # k
    /\ \A w \in WorkerIds : wPc[w] \in {"delete", "count"} => wKey[w] # k

\* a call that listed an old placeholder and an unparsable name, had a delete
\* call fail and then a listing call fail
C3_Witness ==
  /\ pPc = "returned"
  /\ pRet = "list_err"
  /\ {KOld, KDirLike} \subseteq listed
  /\ delCalls[KOld] > 0
  /\ counters.failed > 0
  /\ delCalls[KDirLike] = 0

\* C11: for every keepDays <= 0 the call returns nil at once: no listing
\* call, no delete call, no worker started, nothing queued, and the bucket is
\* left as it was.
C11_RetentionDisabledNoop ==
  /\ [](keepDays <= 0 =>
          /\ pPc \in {"start", "returned"}
          /\ pPc = "returned" => pRet = "nil"
          /\ listCalls = 0
          /\ listed = {}
          /\ \A k \in Keys : delCalls[k] = 0
          /\ \A w \in WorkerIds : wPc[w] = "none"
          /\ tasks = <<>>)
  /\ [][keepDays <= 0 => objects' = objects]_vars

\* a call with keepDays = 0 returned on a bucket holding an expired backup
C11_Witness ==
  /\ pPc = "returned"
  /\ keepDays = 0
  /\ KOld \in objects

-----------------------------------------------------------------------------
(***************************************************************************)
(* Properties of Upload (under SpecUpload)                                 *)
(***************************************************************************)

\* the outcomes of the put attempts, in order
PutOutcomes == SelectSeq(uTrace, LAMBDA e : e[1] \in {"put_ok", "put_failed"})

\* by hand: what the store and the clock see when the first k attempts fail
\* and attempt k+1 succeeds
ExpectedSuccessTrace(k) ==
  CASE k = 0 -> << <<"put", 1>>, <<"put_ok", 1>> >>
    [] k = 1 -> << <<"put", 1>>, <<"put_failed", 1>>, <<"sleep", 500>>,
                   <<"put", 2>>, <<"put_ok", 2>> >>
    [] k = 2 -> << <<"put", 1>>, <<"put_failed", 1>>, <<"sleep", 500>>,
                   <<"put", 2>>, <<"put_failed", 2>>, <<"sleep", 1000>>,
                   <<"put", 3>>, <<"put_ok", 3>> >>
    [] OTHER -> << >>

\* C4: if the first k attempts fail (k in 0..2) and attempt k+1 succeeds, then
\* exactly k+1 puts are made, exactly k sleeps of 500ms*2^(i-1) lie between
\* attempt i and attempt i+1, nothing is attempted after the first success,
\* and Upload returns success.
C4_UploadRetrySuccess ==
  /\ \A i \in 1..Len(PutOutcomes) :
       PutOutcomes[i][1] = "put_ok" => i = Len(PutOutcomes)
  /\ (Len(PutOutcomes) > 0 /\ PutOutcomes[Len(PutOutcomes)][1] = "put_ok") =>
       /\ uPc = "done"
       /\ uRet = [kind |-> "ok", wraps |-> NilErr]
       /\ Len(PutOutcomes) \in 1..3
       /\ uTrace = ExpectedSuccessTrace(Len(PutOutcomes) - 1)

\* two failed attempts, then a success
C4_Witness ==
  /\ uPc = "done"
  /\ uRet.kind = "ok"
  /\ Len(PutOutcomes) = 3

\* C5: if all three put attempts fail, Upload makes exactly 3 attempts and
\* exactly 2 sleeps (none after the third failure), never a fourth attempt,
\* and returns an error that names the exhausted retries and wraps the error
\* of the last attempt.
C5_UploadRetryExhausted ==
  /\ Len(PutOutcomes) <= 3
  /\ (Len(PutOutcomes) = 3 /\ PutOutcomes[3][1] = "put_failed") =>
       /\ uTrace = << <<"put", 1>>, <<"put_failed", 1>>, <<"sleep", 500>>,
                      <<"put", 2>>, <<"put_failed", 2>>, <<"sleep", 1000>>,
                      <<"put", 3>>, <<"put_failed", 3>> >>
       /\ uPc = "done" => uRet = [kind |-> "retries_exhausted",
                                  wraps |-> <<"put_err", 3>>]
  /\ uRet.kind = "retries_exhausted" =>
       (Len(PutOutcomes) = 3 /\ PutOutcomes[3][1] = "put_failed")

\* Upload returned after three failed attempts
C5_Witness ==
  /\ uPc = "done"
  /\ uRet.kind = "retries_exhausted"
  /\ Len(PutOutcomes) = 3

-----------------------------------------------------------------------------
(***************************************************************************)
(* Properties of the run guard (under SpecGuard)                           *)
(***************************************************************************)

\* the positions of a run inside archive -> upload -> prune
PipelinePcs == {"archive", "archive_write", "upload", "prune"}

\* C1: at every moment at most one pipeline execution (archive -> upload ->
\* prune) is active, whatever triggers started the runs and however the check
\* and create steps of two triggers interleave.
C1_AtMostOneRun == Cardinality({p \in Procs : rPc[p] \in PipelinePcs}) <= 1

-----------------------------------------------------------------------------
(***************************************************************************)
(* Properties of the daemon loop (under SpecSched)                         *)
(***************************************************************************)

\* C7: once the shutdown signal has fired, no pipeline run is started, also
\* when the timer is ready at the same moment as the signal.
C7_NoRunAfterSignal == [][sigFired => ~(dPc = "select" /\ dPc' = "run")]_vars

\* C8: every pipeline run the loop starts uses the most recent successfully
\* loaded configuration, its object-store settings included.
C8_RunUsesLastLoaded ==
  dPc = "run" => used[1] = [cfg |-> lastLoaded, cos |-> lastLoaded.cos]

\* C9: after a run found the source empty and logged the skip, the calling
\* process keeps running (it ends by the shutdown signal only).
C9_EmptySourceKeepsRunning ==
  \A p \in Procs : "skip_empty" \in logs[p] => exitCause[p] \in {"none", "signal"}

\* C10: no failure inside a scheduled run (preparing or cleaning the temp
\* directory, archive, upload, prune) terminates the daemon process.
C10_DaemonSurvivesRunFailure == exitCause[1] # "os_exit_1"

-----------------------------------------------------------------------------
(***************************************************************************)
(* Properties of the next-run computation (under SpecNextRun)              *)
(***************************************************************************)

\* by hand: the instant of hour h on day k of the calendar with clock change d
\* (days 0, 1, 2 begin at 0, HoursPerDay + d, 2 * HoursPerDay + d)
WallInstant(k, h, d) ==
  CASE k = 0 -> h
    [] k = 1 -> HoursPerDay + d + h
    [] k = 2 -> 2 * HoursPerDay + d + h
    [] OTHER -> 3 * HoursPerDay + d + h

\* by hand: the day an instant lies in
WallDay(t, d) ==
  IF t < HoursPerDay + d THEN 0
  ELSE IF t < 2 * HoursPerDay + d THEN 1
  ELSE IF t < 3 * HoursPerDay + d THEN 2 ELSE 3

\* C12: the instant returned is today at hour:minute if that instant has not
\* passed (at that very instant either reading is taken), and otherwise the
\* same time of day on the following day; it is never earlier than now.
C12_NextRunSameTimeOfDay ==
  nrPc = "done" =>
    LET d     == ClockChange(nrTz)
        day   == WallDay(nrNow, d)
        today == WallInstant(day, nrSlot, d)
        tomorrow == WallInstant(day + 1, nrSlot, d)
    IN  /\ nrOut >= nrNow
        /\ today > nrNow => nrOut = today
        /\ today < nrNow => nrOut = tomorrow
        /\ today = nrNow => nrOut \in {today, tomorrow}

-----------------------------------------------------------------------------
(***************************************************************************)
(* Properties of progressReader.Read (under SpecProgress)                  *)
(***************************************************************************)

\* the positions of the events that report read = total
CompletionEvents == {i \in 1..Len(rdEvents) : rdEvents[i][1] = rdTotal}

\* C13: of the events emitted, at most one reports read = total; once the
\* reader has reached end-of-stream with read = total there is exactly one,
\* it is the last event, and further calls of Read emit nothing.
C13_OneCompletionEvent ==
  /\ Cardinality(CompletionEvents) <= 1
  /\ rdFinished =>
       /\ Cardinality(CompletionEvents) = 1
       /\ rdEvents[Len(rdEvents)][1] = rdTotal

-----------------------------------------------------------------------------
(***************************************************************************)
(* Properties of the size pass and the archive pass (under SpecArchive and *)
(* SpecArchiveLive)                                                        *)
(***************************************************************************)

\* the filesystem objects of the tree, srcDir included
Objects == {q \in Paths : tree[q].kind # "none"}

\* no path occurs twice in the sequence
NoRepeat(seq) == \A i, j \in 1..Len(seq) : seq[i] = seq[j] => i = j

\* a symlink that closes a cycle: it points to itself, to a directory above
\* it, or to a symlink that points back to it
ClosesCycle(q) ==
  /\ tree[q].kind = "link"
  /\ LET tq == AbsTarget(q, tree[q].link)
     IN  \/ tq = q
         \/ tq = Dir(q)
         \/ tq = Root
         \/ /\ tq \in Paths
            /\ tree[tq].kind = "link"
            /\ AbsTarget(tq, tree[tq].link) = q

\* what both passes keep to: no path is handed to a callback twice, and the
\* entries seen, and those counted as processed or skipped, are no more than
\* the objects of the tree
WalkBounded ==
  /\ NoRepeat(sizeSeen)
  /\ NoRepeat(tarSeen)
  /\ Len(sizeSeen) <= Cardinality(Objects)
  /\ Len(tarSeen) <= Cardinality(Objects)
  /\ processedFiles + skippedFiles <= Cardinality(Objects)

\* C14: for every tree, symlink cycles included, the size pass and the
\* archive pass come to an end, and along the way no entry is visited twice
\* and the entries processed are at most the objects of the tree.
C14_WalkTerminatesBounded == []WalkBounded /\ <>(aPc = "done")

\* both passes are over for a tree that holds a symlink cycle
C14_Witness ==
  /\ aPc = "done"
  /\ aRet = "ok"
  /\ \E q \in Paths : ClosesCycle(q)
  /\ Len(tarSeen) = Cardinality(Objects)

\* the entries read back from the archive, in order, that carry name q
EntriesNamed(q) == SelectSeq(tarEntries, LAMBDA e : e.name = q)

\* the regular file at q is in the archive with its path and its content
FileRestored(q) ==
  EntriesNamed(q) = << Entry(q, "reg", <<>>, tree[q].data) >>

\* the symlink at q is in the archive with its path and its target
LinkRestored(q) ==
  EntriesNamed(q) = << Entry(q, "symlink", tree[q].link, <<>>) >>

\* the position of path q in the order of the walk
WalkIndex(q) == CHOOSE i \in 1..Len(PathSeq) : PathSeq[i] = q

\* the paths the archive pass marks as visited: all but the symlinks whose
\* target path comes earlier in the walk and is marked itself
RECURSIVE IsMarked(_)
IsMarked(q) ==
  ~ /\ tree[q].kind = "link"
    /\ LET tq == AbsTarget(q, tree[q].link)
       IN  /\ tq \in Objects
           /\ WalkIndex(tq) < WalkIndex(q)
           /\ IsMarked(tq)

\* the symlinks the archive leaves out: the target string holds "..", is
\* absolute, names nothing that exists, or names a path walked before
LinkLeftOut(q) ==
  \/ \E i \in 1..Len(tree[q].link) : tree[q].link[i] = ".."
  \/ tree[q].link[1] = "/"
  \/ StatTarget(tree, q, tree[q].link) = "notexist"
  \/ ~IsMarked(q)

RECURSIVE RegularBytes(_)
RegularBytes(qs) ==
  IF qs = {} THEN 0
  ELSE LET q == CHOOSE x \in qs : TRUE
       IN  (IF tree[q].kind = "file" THEN Len(tree[q].data) ELSE 0)
           + RegularBytes(qs \ {q})

\* the size pass has returned
SizePassOver == aPc # "size" \/ walk = <<>>

\* C19: CalculateDirSize returns the sum of the sizes of the regular files of
\* the tree; symlinks, whatever they point to, directories and special files
\* add nothing, and a regular file a symlink points to is counted once.
C19_SizeOfRegularFiles ==
  SizePassOver => originalSize = RegularBytes(Objects)

\* the size pass is over for a tree with a symlink to a regular file that
\* is not empty, a special file and a directory
C19_Witness ==
  /\ SizePassOver
  /\ originalSize > 0
  /\ tree[<<"a">>].kind = "special"
  /\ tree[<<"d">>].kind = "dir"
  /\ \E q \in Objects :
       /\ tree[q].kind = "link"
       /\ AbsTarget(q, tree[q].link) \in Objects
       /\ tree[AbsTarget(q, tree[q].link)].kind = "file"
       /\ tree[AbsTarget(q, tree[q].link)].data # <<>>

-----------------------------------------------------------------------------
(***************************************************************************)
(* Properties of the end of a run (under SpecGuard)                        *)
(***************************************************************************)

\* the run of process p is over: its function returned or the process exited
RunEnded(p) ==
  \/ rPc[p] = "exited"
  \/ rPc[p] = "idle" /\ retVal[p] # "none"

\* C16: once a run that created the lock file has ended, by whatever path,
\* the lock file it wrote is no longer there.
C16_LockReleasedAtEnd ==
  \A p \in Procs : RunEnded(p) => pidFile # PidText(p)

\* process p is past the guard, inside the run proper
InRun(p) ==
  rPc[p] \in {"prepare", "task_mkdir", "archive", "archive_write", "upload",
              "prune", "cleanup", "fail_cleanup", "task_return"}

\* the artifact of process p's run is gone, and so is the run's temporary
\* directory: tmp/ for the main build, the task's own directory for RunBackup
CleanedUp(p) ==
  /\ artPath[p] \notin files
  /\ IF impl = "main" THEN ~tmpDir ELSE p \notin taskDirs

Enters(p, st) == rPc[p] # st /\ rPc'[p] = st

\* the order of the stages of one run: upload begins only where the archive
\* stage ended with the artifact written and no error; prune begins only
\* where upload ended without error; what follows prune is the same whether
\* prune failed or not
StagesInOrder(p) ==
  /\ Enters(p, "archive_write") => rPc[p] = "archive"
  /\ Enters(p, "upload") =>
       /\ rPc[p] = "archive_write"
       /\ artPath[p] \in files
       /\ "error_backup_failed" \notin logs'[p]
  /\ Enters(p, "prune") =>
       /\ rPc[p] = "upload"
       /\ "error_backup_failed" \notin logs'[p]
  /\ (rPc[p] = "prune" /\ rPc'[p] # "prune") =>
       /\ rPc'[p] = (IF impl = "main" THEN "cleanup" ELSE "task_return")
       /\ impl # "main" => pend'[p] = "nil"
       /\ "error_backup_failed" \notin logs'[p]

\* a run in which prune failed ends as a run in which it succeeded: it
\* returns nil, or it exits because the final cleanup of tmp/ failed
PruneFailureKeepsResult(p) ==
  ("error_prune" \in logs[p] /\ RunEnded(p)) =>
     \/ retVal[p] = "nil" /\ "done" \in logs[p]
     \/ exitCause[p] = "os_exit_1" /\ rmErr[p] = "err"

\* C18: within one run archive, upload and prune happen one after the other
\* in that order; upload starts only after archive returned success, prune
\* only after upload returned success, and a failed prune leaves the run's
\* result a success.
C18_StageOrder ==
  /\ [][\A p \in Procs : StagesInOrder(p)]_vars
  /\ [](\A p \in Procs : PruneFailureKeepsResult(p))

\* a run went through archive, upload and a failed prune and returned nil
C18_Witness ==
  \E p \in Procs :
    /\ RunEnded(p)
    /\ "error_prune" \in logs[p]
    /\ "done" \in logs[p]
    /\ retVal[p] = "nil"

-----------------------------------------------------------------------------
(***************************************************************************)
(* Properties of the watcher goroutine (under SpecSched)                   *)
(***************************************************************************)

\* C20: the watcher hands write events to a channel of capacity 1 and drops
\* an event when a reload is already pending: at most one reload is pending,
\* and a watcher holding an event never waits for the scheduler loop, so it
\* can always take its next step and go back to reading events.
C20_WatcherNeverBlocks ==
  /\ reloadChan <= 1
  /\ (Alive(1) /\ wtPc = "send") => ENABLED WatcherSend

-----------------------------------------------------------------------------
(***************************************************************************)
(* Properties of the scheduler loop (under SpecLoop)                       *)
(***************************************************************************)

\* the loop is at one of its select statements
Waiting == dPc = "select"

\* C21: while the current configuration has the schedule disabled the loop
\* waits on config-change and shutdown only and starts no run; at every wait
\* the loop is Armed exactly when the current configuration, as last
\* reloaded, has the schedule enabled, so a reload that enables arms it on
\* the next iteration and a reload that disables leaves the earlier timer
\* without effect.
C21_IdleStartsNoRun ==
  /\ [][(dPc # "run" /\ dPc' = "run") => (armed /\ cfg.enabled)]_vars
  /\ [][(Waiting /\ ~cfg.enabled) => dPc' \in {"select", "top", "exited"}]_vars
  /\ [](Waiting => armed = cfg.enabled)

\* the loop waits Idle after a reload that disabled the schedule, past the
\* time the timer it had armed before was set to
C21_Witness ==
  /\ Waiting
  /\ ~armed
  /\ ~cfg.enabled
  /\ lastLoaded = cfg
  /\ writes = MaxWrites
  /\ deadline > 0
  /\ now >= deadline
  /\ Alive(1)

(***************************************************************************)
(* The delete worker pool of DeleteExpiredBackups                          *)
(***************************************************************************)

\* the delete calls issued so far, over all keys
DeleteCallCount == Cardinality({k \in Keys : delCalls[k] >= 1})

ListingFailed == pPc = "wait_err" \/ pRet = "list_err"

\* C22: once a listing call of a prune has failed (on the first page or on
\* a later one) no further listing call is made and the task queue is
\* closed; the function returns only when all 5 workers have terminated,
\* with every enqueued delete completed, and what it returns is the error
\* that wraps the listing error.
C22_ListingFailureStops ==
  /\ [][(pPc = "list" /\ listCalls' = listCalls + 1 /\ pPc' # "scan")
          => (pPc' = "wait_err" /\ tasksClosed')]_vars
  /\ [](ListingFailed => tasksClosed)
  /\ [][ListingFailed => listCalls' = listCalls]_vars
  /\ [][(pPc = "wait_err" /\ pPc' # "wait_err")
          => (pPc' = "returned" /\ pRet' = "list_err")]_vars
  /\ [](pRet = "list_err" =>
          /\ \A w \in WorkerIds : wPc[w] = "done"
          /\ tasks = <<>>
          /\ DeleteCallCount = counters.toDelete
          /\ counters.deleted + counters.failed = counters.toDelete)

\* a listing call fails on the second page, after a delete of the first
C22_Witness ==
  /\ pRet = "list_err"
  /\ listCalls = 2
  /\ counters.toDelete >= 1
  /\ DeleteCallCount >= 1

\* the delete calls that failed: their object is still in the bucket
FailedDeletes == {k \in Keys : delCalls[k] >= 1 /\ k \in objects}

DeleteReturns(w) == wPc[w] = "delete" /\ wPc'[w] = "count"

\* C23: a failed delete call is counted in `failed` and nothing else
\* follows from it: the worker goes on to the next task, the listing goes
\* on, every other enqueued object still gets its delete call, and the
\* function returns nil however many deletes failed.
C23_DeleteFailureIsolated ==
  /\ [][\A w \in WorkerIds :
          (wPc[w] = "locked" /\ wPc'[w] # "locked") => wPc'[w] = "recv"]_vars
  /\ [][\A w \in WorkerIds :
          DeleteReturns(w) =>
            /\ pPc' = pPc /\ tasksClosed' = tasksClosed /\ tasks' = tasks
            /\ \A v \in WorkerIds \ {w} : wPc'[v] = wPc[v]]_vars
  /\ [][(pPc = "wait" /\ pPc' # "wait") => pRet' = "nil"]_vars
  /\ []((pPc = "returned" /\ pRet = "nil") =>
          /\ counters.failed = Cardinality(FailedDeletes)
          /\ counters.deleted = DeleteCallCount - Cardinality(FailedDeletes)
          /\ DeleteCallCount = counters.toDelete)

\* a prune that returned nil after one delete failed and another succeeded
C23_Witness ==
  /\ pPc = "returned"
  /\ pRet = "nil"
  /\ counters.failed >= 1
  /\ counters.deleted >= 1

\* the workers that exist: started and not yet terminated
LiveWorkers == {w \in DOMAIN wPc : wPc[w] \notin {"none", "done"}}

StartedWorkers == {w \in DOMAIN wPc : wPc[w] # "none"}

InFlight == {w \in DOMAIN wPc : wPc[w] = "delete"}

\* the delete calls that returned and are not yet counted
Uncounted == {w \in DOMAIN wPc : wPc[w] \in {"count", "locked"}}

RECURSIVE CallsUpTo(_)
\* the delete calls issued for the first i keys of KeySeq
CallsUpTo(i) == IF i = 0 THEN 0 ELSE delCalls[KeySeq[i]] + CallsUpTo(i - 1)

\* the delete calls issued, a key deleted twice counting twice
TotalCalls == CallsUpTo(Len(KeySeq))

\* where an enqueued key can be before its delete call: in the channel,
\* or in the hands of a worker about to call Delete
Queued(k) == Cardinality({i \in DOMAIN tasks : tasks[i] = k})

Held(k) == Cardinality({w \in InFlight : wKey[w] = k})

\* C25: every key enqueued during a prune call receives exactly one delete
\* call: it is never lost, never deleted twice and never taken by two
\* workers, so at the return, after a complete listing or after a listing
\* failure alike, deleted + failed equals toDelete, the number of keys
\* enqueued.
C25_OneDeletePerTask ==
  /\ \A k \in Keys : Queued(k) + Held(k) + delCalls[k] <= 1
  /\ Len(tasks) + Cardinality(InFlight) + TotalCalls = counters.toDelete
  /\ pPc = "returned" =>
       /\ TotalCalls = counters.toDelete
       /\ \A k \in Keys : delCalls[k] \in {0, 1}
       /\ counters.deleted + counters.failed = counters.toDelete

\* a complete listing enqueued two keys and each got its one call
C25_Witness ==
  /\ pPc = "returned"
  /\ pRet = "nil"
  /\ counters.toDelete = 2
  /\ delCalls[KOld] = 1
  /\ delCalls[KMid] = 1

LoopEnded == pPc \in {"wait", "wait_err"}

\* C26: deletion does not wait for the listing: the workers run while the
\* pages are listed, and a delete call in flight can return whatever the
\* producer is doing; the task channel is closed exactly once, by the step
\* that ends the listing loop (last page or listing error) and not before,
\* and nothing is sent on it once it is closed.
C26_PipelinedCloseOnce ==
  /\ [](pPc \in {"list", "scan"} => (StartedWorkers = WorkerIds /\ ~tasksClosed))
  /\ [](\A w \in WorkerIds : wPc[w] = "delete" => ENABLED WDelete(w))
  /\ [][tasksClosed' # tasksClosed
          => (~tasksClosed /\ tasksClosed' /\ ~LoopEnded /\ LoopEnded')]_vars
  /\ [](LoopEnded => tasksClosed)
  /\ [][tasksClosed => (tasksClosed' /\ Len(tasks') <= Len(tasks))]_vars

\* the second page is not requested yet and a key of the first page has
\* had its delete call
C26_Witness ==
  /\ pPc = "list"
  /\ listCalls = 1
  /\ ~tasksClosed
  /\ \E k \in listed : delCalls[k] = 1

\* the next item of the page is one the producer will enqueue
NextQualifies ==
  /\ pPc = "scan"
  /\ pageIdx < Len(page)
  /\ LET key == page[pageIdx + 1]
         ts  == ParseBackupTime(key)
     IN  ~IsPlaceholder(key) /\ IsBackupObject(key) /\ ts.ok
           /\ Before(ts.t, Expire(keepDays))

\* the producer stands at `tasks <- task{key}` with the channel full
ProducerBlocked == NextQualifies /\ Len(tasks) = TasksCap

\* C27: every prune call terminates, and when it returns no worker is
\* left running: a producer blocked on the full queue is unblocked by a
\* worker, and workers with nothing to do exit on the closed empty queue.
C27_PruneTerminates ==
  /\ <>(pPc = "returned")
  /\ ProducerBlocked ~> ~ProducerBlocked
  /\ [](pPc = "returned" => LiveWorkers = {})
  /\ []((pPc = "returned" /\ keepDays > 0) =>
          (Cardinality({w \in DOMAIN wPc : wPc[w] = "done"}) = 5 /\ tasks = <<>>))

\* the producer is blocked: more keys qualify than the queue holds
C27_Witness ==
  /\ ProducerBlocked
  /\ ~ENABLED PScanItem
  /\ counters.toDelete >= TasksCap

(***************************************************************************)
(* The run guard during and before a run                                   *)
(***************************************************************************)

\* process p is inside a scheduled run, past its createPidFile
HoldsGuard(p) == entry[p] = "scheduled" /\ InRun(p)

\* C28: from the moment a scheduled run has created the lock file until the
\* run ends, the lock file exists and contains the owning process's
\* identifier: no step of the run itself and no step of a concurrent manual
\* run removes or empties it.
C28_GuardHeldThroughRun ==
  \A p \in Procs : HoldsGuard(p) => pidFile = PidText(p)

\* process p takes a step of its run
Moves(p) == rPc'[p] # rPc[p]

\* the check of process p finds the lock file stale: its text is no positive
\* pid, or the pid it read belongs to no living process
FindsStale(p) ==
  \/ rPc[p] = "chk_read" /\ pidFile = Garbage
  \/ rPc[p] = "chk_signal" /\ ~ProcessAlive(rdPid[p])

\* a stale lock file is never a reason to skip, and it is removed
StaleIsRemoved ==
  /\ [][\A p \in Procs : (FindsStale(p) /\ Moves(p)) =>
          (rPc'[p] = "chk_remove" /\ "warn_skip_running" \notin logs'[p])]_vars
  /\ [][\A p \in Procs : (rPc[p] = "chk_remove" /\ Moves(p)) =>
          (pidFile' = Absent /\ rPc'[p] = "create_pid")]_vars
  /\ [][\A p \in Procs : (rPc[p] = "chk_signal" /\ rPc'[p] = "idle") =>
          ProcessAlive(rdPid[p])]_vars

\* the check of this run of process p found the lock file stale
FoundStale(p) == "info_stale_pid" \in logs[p] \/ "error_pid_invalid" \in logs[p]

TempDirOf(path) == IF path[1] = "tmp" THEN <<"tmp">> ELSE <<"task", path[2]>>

\* process p is inside a run that has chosen its artifact path
HasPath(p) == InRun(p) /\ artPath[p] # NoPath

\* the artifact of p's run is on disk and its upload has not finished
ArtifactPending(p) ==
  /\ rPc[p] \in {"archive_write", "upload"}
  /\ artPath[p] \in files

\* two runs under way never have the same artifact path or temporary directory
PathsDisjoint ==
  \A p, q \in Procs :
    (p # q /\ HasPath(p) /\ HasPath(q)) =>
      (artPath[p] # artPath[q] /\ TempDirOf(artPath[p]) # TempDirOf(artPath[q]))

\* no step of another run deletes an artifact waiting for its upload
OthersKeepArtifact ==
  [][\A p \in Procs :
       (ArtifactPending(p) /\ ~Moves(p)) => artPath[p] \in files']_vars

\* C30: two pipeline runs that overlap in time never use the same local
\* artifact path or temporary directory, and no run's start-up or cleanup
\* deletes the artifact file of another run that has not yet finished
\* uploading.
C30_ExclusiveArtifacts == []PathsDisjoint /\ OthersKeepArtifact

(***************************************************************************)
(* Compress when calls fail                                                *)
(***************************************************************************)

\* the archive pass is over, a regular file could not be read in full, and
\* no write to the destination failed
OnlyReadsFailed == aPc = "done" /\ twState = "short"

\* C31: when opening or reading a regular file fails during the archive
\* pass, also after its header was written, only that entry is skipped:
\* every other regular file of the tree still has its entry with its
\* content, the container closes without error and Compress returns success.
C31_EntryErrorsNonFatal ==
  OnlyReadsFailed =>
    /\ aRet = "ok"
    /\ \A q \in Objects : tree[q].kind = "file" => EntriesNamed(q) # <<>>
    /\ Cardinality({q \in Objects : tree[q].kind = "file" /\ ~FileRestored(q)})
         <= skippedFiles

\* Compress returned an error after os.Create had succeeded
FailedAfterCreate ==
  aPc = "done" /\ aRet \in {"err_zstd", "err_tw_close", "err_zs_close", "err_stat"}

\* C32: whenever Compress returns an error after the destination file was
\* created (compressor creation, closing the container or the compressor,
\* reading the final size), the destination file does not exist at the
\* return.
C32_NoPartialArtifact == FailedAfterCreate => ~dstFile

(***************************************************************************)
(* The symlink policy                                                      *)
(***************************************************************************)

\* the target string of the symlink at q has no ".." segment, is not
\* absolute, and names something that exists, seen from the link's directory
PolicyAccepts(q) ==
  /\ \A i \in 1..Len(tree[q].link) : tree[q].link[i] # ".."
  /\ tree[q].link[1] # "/"
  /\ StatTarget(tree, q, tree[q].link) = "ok"

Symlinks == {q \in Objects : tree[q].kind = "link"}

\* C33: a symlink is never dereferenced (nothing below it is walked); it is
\* written as a symlink entry if and only if its target string has no ".."
\* segment, is not absolute and exists relative to the link's directory; a
\* rejected symlink has no entry and the walk goes on; hence no symlink
\* entry has an absolute target or a target with a ".." segment.
C33_SymlinkPolicy ==
  aRet = "ok" =>
    /\ \A q \in Symlinks :
         IF PolicyAccepts(q) THEN LinkRestored(q) ELSE EntriesNamed(q) = <<>>
    /\ \A i \in 1..Len(tarSeen) :
         tarSeen[i] # Root => tree[Dir(tarSeen[i])].kind = "dir"
    /\ Len(tarSeen) = Cardinality(Objects)
    /\ \A i \in 1..Len(tarEntries) :
         tarEntries[i].type = "symlink" =>
           /\ tarEntries[i].linkname[1] # "/"
           /\ \A j \in 1..Len(tarEntries[i].linkname) : tarEntries[i].linkname[j] # ".."

(***************************************************************************)
(* The stream of an upload attempt                                         *)
(***************************************************************************)

\* C34: every upload attempt opens the local file anew and streams it from
\* offset 0 with a new progress reader (read counter 0) and the full
\* declared size; the handle of each attempt is closed before the backoff
\* sleep or the return, so no handle is open when Upload returns; if
\* opening the file fails, Upload returns that error at once without
\* further attempts.
C34_FreshStreamPerAttempt ==
  /\ [][(uPc = "open" /\ uPc' = "put") =>
          (~fOpen /\ fOpen' /\ prRead' = 0 /\ fileSize' = fileSize)]_vars
  /\ [](fOpen <=> uPc = "put")
  /\ [](uRet.kind = "ok" => prRead = fileSize)
  /\ [][(uPc = "open" /\ uPc' # "put" /\ uPc' # "open") =>
          (uPc' = "done" /\ uRet'.kind = "open_failed" /\ attempt' = attempt
             /\ uTrace' = uTrace)]_vars
  /\ [](uPc = "done" => ~fOpen)

\* the third attempt starts at 0 on the whole file after two failed puts
C34_Witness ==
  /\ uPc = "put"
  /\ attempt = 3
  /\ fOpen
  /\ prRead = 0
  /\ fileSize >= 2
  /\ lastErr = PutErr(2)

(***************************************************************************)
(* The counters of the retention scan                                      *)
(***************************************************************************)

\* the scan loop takes the next object of the page
ScansNext == pPc = "scan" /\ pageIdx' = pageIdx + 1

ScannedKey == page[pageIdx + 1]

\* by how much one step raises the four scan counters
ScanDelta ==
  <<counters'.listedRaw - counters.listedRaw,
    counters'.listedFiles - counters.listedFiles,
    counters'.matched - counters.matched,
    counters'.toDelete - counters.toDelete>>

EndsInSlash(k) == k[Len(k)] = "/"

\* a backup name whose timestamp does not parse, or parses to a day that
\* is not before the cutoff
KeptBackup(k) ==
  \/ k = KJunk
  \/ k \in DOMAIN BackupDay /\ BackupDay[k] >= NowDay - keepDays

\* C36: at every point of a prune call listedRaw >= listedFiles >= matched
\* >= toDelete; a directory placeholder key (ending in '/') increments
\* listedRaw only; an object with a matching name but an unparsable or
\* not-yet-expired timestamp increments matched but not toDelete, and the
\* scan continues with the next object.
C36_RetentionCounters ==
  /\ [](/\ counters.listedRaw >= counters.listedFiles
        /\ counters.listedFiles >= counters.matched
        /\ counters.matched >= counters.toDelete)
  /\ [][ScansNext =>
          /\ EndsInSlash(ScannedKey) => ScanDelta = <<1, 0, 0, 0>>
          /\ KeptBackup(ScannedKey) =>
               (ScanDelta = <<1, 1, 1, 0>> /\ tasks' = tasks)
          /\ (EndsInSlash(ScannedKey) \/ KeptBackup(ScannedKey)) =>
               (pPc' = "scan" /\ page' = page)]_vars

\* a placeholder and a backup with an unparsable name have both been
\* scanned and the page is at its end
C36_Witness ==
  /\ pPc = "scan"
  /\ page = <<KDirLike, KJunk>>
  /\ pageIdx = 2
  /\ counters.listedRaw = 2
  /\ counters.listedFiles = 1
  /\ counters.matched = 1
  /\ counters.toDelete = 0

(***************************************************************************)
(* Symlinks and the order of the walk                                      *)
(***************************************************************************)

\* C37: in the archive pass a relative symlink that satisfies the safety
\* policy (no "..", not absolute, target exists) is written to the archive
\* whether or not its target path was visited earlier in the walk, so that
\* two trees that differ only in the walk order of a link and its target
\* yield archives that both contain the link.
C37_LinkOrderIndependent ==
  aRet = "ok" =>
    \A q \in Symlinks :
      /\ PolicyAccepts(q)
      /\ AbsTarget(q, tree[q].link) \in Objects
      => LinkRestored(q)

(***************************************************************************)
(* The refresh interval of the upload progress                             *)
(***************************************************************************)

\* the block that reads PROGRESS_INTERVAL has run
IntervalRead == attempt >= 1

\* the text is set, no longer than 20 bytes, and parses as a duration of
\* at least 1ms and at most 60s
StatedValid ==
  /\ envInterval # <<>>
  /\ StrLen(envInterval) <= 20
  /\ ParseDuration(envInterval).ok
  /\ ParseDuration(envInterval).d >= 1000
  /\ ParseDuration(envInterval).d <= 60 * 1000000

\* C35: the configured interval is used if and only if it parses as a
\* duration d with 1ms <= d <= 60s; for every other value (unparsable,
\* zero, negative, below 1ms, above 60s, over-long text) the default of 1s
\* is used with a warning, and in no case does the upload abort because of
\* this setting.
C35_ProgressInterval ==
  /\ IntervalRead =>
       IF StatedValid
       THEN interval = ParseDuration(envInterval).d
       ELSE /\ interval = 1000000
            /\ envInterval # <<>> => warned # "none"
  /\ uPc = "done" =>
       uRet.kind \in {"ok", "stat_failed", "open_failed", "retries_exhausted"}
  /\ (uPc = "done" /\ uRet.kind = "stat_failed") => ~IntervalRead

(***************************************************************************)
(* The daily occurrence and the loop's iterations (under SpecLoop)         *)
(***************************************************************************)

\* the loop goes from the computation of nextRunTime into its next select;
\* before the step `armed` and `deadline` are those of the select before
EntersSelect == dPc = "branch" /\ dPc' = "select"

\* the select before waited for an occurrence of the schedule that the
\* configuration still names, no run was started yet, and no signal came
OccurrencePending ==
  /\ armed
  /\ cfg.enabled
  /\ deadline % DayLen = cfg.slot
  /\ used[1] = NoUse
  /\ ~sigFired

\* C38: with the schedule enabled and unchanged, no signal and no run in
\* progress, every daily occurrence of the scheduled time triggers a
\* pipeline attempt, also when a config-change event is received or handled
\* at the moment the scheduled time passes: handling a reload never pushes
\* the pending occurrence to the next day.
C38_NoMissedOccurrence ==
  [][(EntersSelect /\ lastExit = "reload" /\ OccurrencePending) =>
       (armed' /\ deadline' <= deadline)]_vars

\* C39: one daily occurrence triggers at most one pipeline run: after a
\* timer-triggered run has returned, the nextRun of the following iteration
\* is strictly later than the occurrence that fired, also when the run
\* returns within the clock instant at which the timer fired.
C39_OneRunPerOccurrence ==
  [][(EntersSelect /\ lastExit = "timer") =>
       (nextRun > deadline /\ (armed' => deadline' > deadline))]_vars

====
